---------------------------- MODULE Spec2Model ----------------------------
(***************************************************************************)
(* A model of the jellyfin-playlist-manager radio pipeline, of the         *)
(* subsystems it rests on and of its neighbours:                           *)
(*                                                                         *)
(*   SpecGuard  the session guards: AdminAuthClient (admin-auth.ts) and    *)
(*              AuthClient (auth-client.ts), run by concurrent callers     *)
(*              over the shared jellyfinClient singleton;                  *)
(*   SpecPoll   JellyfinClient.waitForLibraryScanCompletion (jellyfin.ts); *)
(*   Spec       the POST handler of app/api/radio/route.ts;                *)
(*   SpecClient one API call of the browser's library client through       *)
(*              AuthClient.withTokenRefresh;                               *)
(*   SpecDownload  the POST handler of app/api/download/route.ts;          *)
(*   SpecMatch  the functions of utils/search-matching.ts, applied to      *)
(*              bounded inputs.                                            *)
(*                                                                         *)
(* JavaScript runs one macrotask at a time: an action of the model is the  *)
(* code that runs between two suspension points (a network reply, a timer, *)
(* a child process ending) together with the promise continuations that   *)
(* the same macrotask drains.                                              *)
(*                                                                         *)
(* Text is a sequence of one-character strings, so that toLowerCase and    *)
(* String.includes are computed and not assumed.                           *)
(***************************************************************************)
EXTENDS Integers, Sequences, FiniteSets, TLC

\* ------------------------------------------------------------------ bounds
\* Concurrent callers of the session guards in SpecGuard.
NumCallers == 2
\* Largest clock value (hours) of SpecGuard.
MaxNow == 24
\* The longest maxWaitTimeMs a scan wait is called with, seconds.
MaxWaitSeconds == 12
\* The longest pollIntervalMs, seconds.
MaxPollInterval == 3
\* A task query takes up to this many seconds.
MaxQueryDelay == 1
\* A timer fires up to this many seconds late.
MaxTimerLate == 1
\* The most suggestions a run receives.
MaxSuggestions == 3
\* The largest DOWNLOAD_CONCURRENCY.
MaxConcurrency == 2
\* The iterations of the loop that builds downloadBatches that are followed.
MaxLoopSteps == 6

\* -------------------------------------------------------------------- text
UpperChars ==
    <<"A","B","C","D","E","F","G","H","I","J","K","L","M","N","O","P","Q","R","S","T","U","V","W","X","Y","Z">>
LowerChars ==
    <<"a","b","c","d","e","f","g","h","i","j","k","l","m","n","o","p","q","r","s","t","u","v","w","x","y","z">>

\* String.prototype.toLowerCase, one character.
ToLowerChar(c) ==
    IF \E i \in 1..Len(UpperChars) : UpperChars[i] = c
    THEN LowerChars[CHOOSE i \in 1..Len(UpperChars) : UpperChars[i] = c]
    ELSE c

\* String.prototype.toLowerCase.
ToLowerCase(s) == [i \in 1..Len(s) |-> ToLowerChar(s[i])]

\* String.prototype.includes: sub occurs in s as a contiguous run.
Includes(s, sub) ==
    \E i \in 0..(Len(s) - Len(sub)) : SubSeq(s, i + 1, i + Len(sub)) = sub

MsgStatus401 ==
    <<"R","e","q","u","e","s","t"," ","f","a","i","l","e","d"," ","w","i","t","h"," ","s","t","a","t","u","s"," ","c","o","d","e"," ","4","0","1">>
MsgStatus403 ==
    <<"R","e","q","u","e","s","t"," ","f","a","i","l","e","d"," ","w","i","t","h"," ","s","t","a","t","u","s"," ","c","o","d","e"," ","4","0","3">>
MsgStatus500 ==
    <<"R","e","q","u","e","s","t"," ","f","a","i","l","e","d"," ","w","i","t","h"," ","s","t","a","t","u","s"," ","c","o","d","e"," ","5","0","0">>
MsgJsonToken ==
    <<"U","n","e","x","p","e","c","t","e","d"," ","t","o","k","e","n"," ","<"," ","i","n"," ","J","S","O","N"," ","a","t"," ","p","o","s","i","t","i","o","n"," ","0">>
MsgNotAuthenticated ==
    <<"N","o","t"," ","a","u","t","h","e","n","t","i","c","a","t","e","d">>
MsgAuthenticateFailed ==
    <<"F","a","i","l","e","d"," ","t","o"," ","a","u","t","h","e","n","t","i","c","a","t","e"," ","w","i","t","h"," ","J","e","l","l","y","f","i","n"," ","s","e","r","v","e","r">>
MsgAdminAuthPrefix ==
    <<"A","d","m","i","n"," ","a","u","t","h","e","n","t","i","c","a","t","i","o","n"," ","f","a","i","l","e","d",":"," ">>
MsgAdminCredsEnv ==
    <<"A","d","m","i","n"," ","c","r","e","d","e","n","t","i","a","l","s"," ","n","o","t"," ","a","v","a","i","l","a","b","l","e"," ","i","n"," ","e","n","v","i","r","o","n","m","e","n","t"," ","v","a","r","i","a","b","l","e","s">>
MsgNoStoredCreds ==
    <<"N","o"," ","s","t","o","r","e","d"," ","c","r","e","d","e","n","t","i","a","l","s"," ","a","v","a","i","l","a","b","l","e"," ","f","o","r"," ","t","o","k","e","n"," ","r","e","f","r","e","s","h">>
MsgRefreshFailed ==
    <<"T","o","k","e","n"," ","r","e","f","r","e","s","h"," ","f","a","i","l","e","d">>
MsgAllAttemptsFailed ==
    <<"A","l","l"," ","A","P","I"," ","c","a","l","l"," ","a","t","t","e","m","p","t","s"," ","f","a","i","l","e","d">>
KwUnauthorized ==
    <<"u","n","a","u","t","h","o","r","i","z","e","d">>
KwForbidden ==
    <<"f","o","r","b","i","d","d","e","n">>
KwAuthentication ==
    <<"a","u","t","h","e","n","t","i","c","a","t","i","o","n">>
KwToken ==
    <<"t","o","k","e","n">>

\* ------------------------------------------------------------------ errors
\* The thrown values the guards classify.  status is err.status and respStatus
\* is err.response.status, 0 standing for an absent field.
ErrorIds ==
    { "E401", "E403", "E500", "EJsonToken", "ENotAuthenticated",
      "EAdminAuthFailed", "EAdminCreds", "ENoStoredCreds", "ERefreshFailed",
      "EAllAttemptsFailed" }

ErrorOf(id) ==
    CASE id = "E401" ->
           [status |-> 0, respStatus |-> 401, message |-> MsgStatus401]
      [] id = "E403" ->
           [status |-> 0, respStatus |-> 403, message |-> MsgStatus403]
      [] id = "E500" ->
           [status |-> 0, respStatus |-> 500, message |-> MsgStatus500]
      [] id = "EJsonToken" ->
           [status |-> 0, respStatus |-> 0, message |-> MsgJsonToken]
      [] id = "ENotAuthenticated" ->
           [status |-> 0, respStatus |-> 0, message |-> MsgNotAuthenticated]
      [] id = "EAdminAuthFailed" ->
           [status |-> 0, respStatus |-> 0,
            message |-> MsgAdminAuthPrefix \o MsgAuthenticateFailed]
      [] id = "EAdminCreds" ->
           [status |-> 0, respStatus |-> 0, message |-> MsgAdminCredsEnv]
      [] id = "ENoStoredCreds" ->
           [status |-> 0, respStatus |-> 0, message |-> MsgNoStoredCreds]
      [] id = "ERefreshFailed" ->
           [status |-> 0, respStatus |-> 0, message |-> MsgRefreshFailed]
      [] id = "EAllAttemptsFailed" ->
           [status |-> 0, respStatus |-> 0, message |-> MsgAllAttemptsFailed]

\* The four message keywords both guards look for.
MessageLooksLikeAuth(message) ==
    \/ Includes(ToLowerCase(message), KwUnauthorized)
    \/ Includes(ToLowerCase(message), KwForbidden)
    \/ Includes(ToLowerCase(message), KwAuthentication)
    \/ Includes(ToLowerCase(message), KwToken)

\* A classifier that trusts the HTTP status only.
AdminIsAuthErrorStatusOnly(err) ==
    \/ err.status = 401 \/ err.status = 403
    \/ err.respStatus = 401 \/ err.respStatus = 403

\* AdminAuthClient.isAuthError
AdminIsAuthError(err) ==
    \/ err.status = 401 \/ err.status = 403
    \/ err.respStatus = 401 \/ err.respStatus = 403
    \/ MessageLooksLikeAuth(err.message)

\* AuthClient.isAuthError
IsAuthError(err) ==
    \/ err.respStatus = 401 \/ err.respStatus = 403
    \/ err.status = 401 \/ err.status = 403
    \/ MessageLooksLikeAuth(err.message)

\* The classification of every error of the model, computed once.
AdminAuthErrorIds == { id \in ErrorIds : AdminIsAuthError(ErrorOf(id)) }
AuthErrorIds == { id \in ErrorIds : IsAuthError(ErrorOf(id)) }

\* ------------------------------------------------------------------- state
VARIABLES
    \* AdminAuthClient (admin-auth.ts:9-12)
    adminToken,        \* 0 is null, otherwise a token number
    tokenExpiry,       \* hours
    isAuthenticating,
    authPromise,       \* 0 is null, otherwise the pending exchange's number
    \* AuthClient (auth-client.ts:12-13)
    isRefreshing,
    refreshPromise,    \* 0 is null, otherwise the pending exchange's number
    \* the jellyfinClient singleton (jellyfin.ts:23-24, 881)
    accessToken,       \* 0 is null
    userId,            \* "" or a user's id
    \* the world around the guards
    now,               \* Date.now(), hours
    issued,            \* the last token number the server issued
    cfg,               \* [adminCreds, storedCreds]: env and localStorage
    \* the callers of SpecGuard and the credential exchanges they started
    call,
    exch

VARIABLES
    \* one call of waitForLibraryScanCompletion (jellyfin.ts:707-779)
    pollPc,            \* idle, query, sleep, done
    pollArgs,          \* [maxWaitTimeMs, pollIntervalMs], seconds
    clock,             \* Date.now(), seconds
    startTime,
    lastProgressLog,
    scanResult,        \* "", "true", "false" or "throws"
    \* the server's scheduled tasks and what the poller saw of them
    tasks,             \* task -> State
    lastSeen,          \* "none", "error" or the task states last received
    queries            \* [sent, failed]: getActiveTasks calls

VARIABLES
    \* one run of POST /api/radio (route.ts:7-345)
    pc,                \* where the handler is suspended
    env,               \* [downloadDir, concurrency]: process.env (the
                       \* directory is set or not; the concurrency as text)
    ytDlpAvailable,
    sugg,              \* per suggestion: [search, add, dl, find]
    results,           \* the results object of the run
    batchIndex,
    response,          \* [status, body]; status 0: no reply yet
    other,             \* a second request's use of jellyfinClient
    trigger,           \* what Phase 4 did: calls, requests, replies
    session,           \* the token getCurrentUser accepted for this run
    payload            \* what the suggestion model answered

VARIABLES
    \* one API call of the browser's library client (auth-client.ts:149-182)
    browser,           \* [window, creds, cookie, store, location, token]
    apiCall            \* the call: operation, position, what it met

VARIABLES
    \* one POST /api/download request (download/route.ts:6-173)
    download           \* position, the handler's locals, the reply

VARIABLES
    \* one call of a function of utils/search-matching.ts
    match              \* [pc, input, output]

VARIABLES
    \* one withAdminAuth(() => triggerMusicLibraryScan()) on the server
    \* (admin-auth.ts:109-147, jellyfin.ts:537-658)
    nested             \* position, requests sent, refreshes started

guardVars ==
    << adminToken, tokenExpiry, isAuthenticating, authPromise, isRefreshing,
       refreshPromise, accessToken, userId, now, issued, cfg, call, exch >>

pollVars ==
    << pollPc, pollArgs, clock, startTime, lastProgressLog, scanResult,
       tasks, lastSeen, queries >>

pipeVars ==
    << pc, env, ytDlpAvailable, sugg, results, batchIndex, response, other,
       trigger, session, payload >>

clientVars == << browser, apiCall >>

downloadVars == << download >>

matchVars == << match >>
nestedVars == << nested >>

\* The state of the parts that are modelled on their own.
restVars == << clientVars, downloadVars, matchVars, nestedVars >>

vars == << guardVars, pollVars, pipeVars, restVars >>

\* ------------------------------------------------------------ session guard
Callers == 1..NumCallers

\* 23 * 60 * 60 * 1000 ms, in hours
TokenLifetimeHours == 23
\* The clock of SpecGuard moves in steps of a day.
TickHours == 24

\* The user's own session token, sent by the browser with the request.
UserToken == 1

NewCaller ==
    [ kind |-> "none",   \* "admin": withAdminAuth, "user": withTokenRefresh
      pc |-> "idle",     \* idle, token1, op1, token2, op2, done
      opCalls |-> 0,     \* invocations of operation()
      sent |-> 0,        \* the token the request in flight carries
      tok1 |-> 0,        \* the token the first request carried
      err1 |-> "",       \* the first failure of operation()
      waits |-> 0,       \* the exchange whose promise the caller awaits
      refreshEx |-> 0,   \* the exchange awaited after operation() failed
      got |-> << >>,     \* the exchange outcomes received: <<exchange, token>>
      res |-> "",        \* "", "ok" or the error thrown to the caller
      from |-> "" ]      \* what produced res: "op1", "op2" or "auth"

\* No scan wait is in progress.
PollIdle ==
    /\ pollPc = "idle"
    /\ pollArgs = [maxWaitTimeMs |-> 0, pollIntervalMs |-> 0]
    /\ clock = 0
    /\ startTime = 0
    /\ lastProgressLog = 0
    /\ scanResult = ""
    /\ tasks = << >>
    /\ lastSeen = [kind |-> "none", states |-> << >>]
    /\ queries = [sent |-> 0, failed |-> 0]

\* The results object before the playlist exists.
NoResults ==
    [ playlistId |-> 0, totalSuggestions |-> 0, songsFound |-> 0,
      songsDownloaded |-> 0, songsAdded |-> 0, errors |-> << >> ]

NoResponse == [status |-> 0, body |-> "none"]

\* generatePlaylistSuggestions has not been called.
NoPayload == [shape |-> "none", items |-> 0]

\* Phase 4 has not run: no call of triggerMusicLibraryScan, no refresh
\* request sent, withAdminAuth has not retried, no reply seen.
NoTrigger ==
    [ calls |-> 0, refreshes |-> << >>, retried |-> FALSE,
      folders |-> << >>, listed |-> FALSE, tasksAfter |-> "none" ]

\* No request is being handled.
PipeIdle ==
    /\ pc = "start"
    /\ env = [downloadDir |-> FALSE, concurrency |-> << >>]
    /\ ytDlpAvailable = FALSE
    /\ sugg = << >>
    /\ results = NoResults
    /\ batchIndex = 0
    /\ response = NoResponse
    /\ other = "none"
    /\ trigger = NoTrigger
    /\ session = 0
    /\ payload = NoPayload

\* No page is open and no API call is under way.
NoBrowser == [window |-> FALSE]
NoApiCall == [pc |-> "none"]
ClientIdle ==
    /\ browser = NoBrowser
    /\ apiCall = NoApiCall

\* An API call that has not started.
NewApiCall ==
    [ pc |-> "idle", op |-> "none", items |-> 0, step |-> "none", item |-> 0,
      opCalls |-> 0, met |-> {}, refreshes |-> 0, refreshed |-> "none",
      thrown |-> "none" ]

\* No download request is under way.
NoDownload == [pc |-> "idle"]
DownloadIdle == download = NoDownload

\* A download request as it arrives.
NewDownload ==
    [ pc |-> "start",
      playlistId |-> FALSE,      \* the body names a playlist
      downloaded |-> FALSE,      \* downloadSong succeeded
      retried |-> FALSE,         \* withAdminAuth has retried the trigger
      triggerResult |-> "none",  \* what triggerMusicLibraryScan returned
      scanTriggered |-> FALSE,
      scanError |-> "none",
      scanCompleted |-> "none",  \* what the wait returned
      searched |-> FALSE,        \* findSongInLibrary was called
      addedToPlaylist |-> FALSE,
      playlistError |-> "none",
      other |-> "none",          \* a concurrent request of the process
      reply |-> [status |-> 0, success |-> FALSE] ]

\* No function of search-matching.ts is being applied.
NoMatch == [pc |-> "idle"]
MatchIdle == match = NoMatch

\* No nested guarded call is under way.
NoNested == [pc |-> "idle"]
NestedIdle == nested = NoNested

\* The guards as they are when the process starts.
GuardIdle ==
    /\ adminToken = 0
    /\ tokenExpiry = 0
    /\ isAuthenticating = FALSE
    /\ authPromise = 0
    /\ isRefreshing = FALSE
    /\ refreshPromise = 0
    /\ accessToken = 0
    /\ userId = ""
    /\ now = 0
    /\ issued = UserToken
    /\ cfg = [adminCreds |-> FALSE, storedCreds |-> FALSE]
    /\ call = [p \in Callers |-> NewCaller]
    /\ exch = << >>

RestIdle == ClientIdle /\ DownloadIdle /\ MatchIdle /\ NestedIdle

\* AdminAuthClient.isTokenValid
IsTokenValid == adminToken # 0 /\ now < tokenExpiry

InitGuard ==
    /\ adminToken = 0
    /\ tokenExpiry = 0
    /\ isAuthenticating = FALSE
    /\ authPromise = 0
    /\ isRefreshing = FALSE
    /\ refreshPromise = 0
    /\ accessToken = UserToken
    /\ userId = "user"
    /\ now = 0
    /\ issued = UserToken
    /\ cfg \in { [adminCreds |-> b, storedCreds |-> b] : b \in BOOLEAN }
    /\ call = [p \in Callers |-> NewCaller]
    /\ exch = << >>
    /\ PollIdle
    /\ PipeIdle
    /\ RestIdle

\* Callers are interchangeable: they enter in the order of their numbers.
MayEnter(p) ==
    /\ call[p].pc = "idle"
    /\ \A q \in Callers : q < p => call[q].pc # "idle"

\* operation() runs: the request is built from the singleton's token.
InvokeOperation(c, pcNext, token) ==
    [c EXCEPT !.pc = pcNext, !.opCalls = @ + 1, !.sent = token,
              !.tok1 = IF c.opCalls = 0 THEN token ELSE @]

PendingExchange(guard) == [guard |-> guard, st |-> "pending", tok |-> 0]

\* A single-flight check that never joins a pending authentication.
AdminMustStartNeverJoin == TRUE

\* AdminAuthClient.authenticateAdmin, lines 44-47: join unless none is pending
AdminMustStart == ~(isAuthenticating /\ authPromise # 0)

\* A single-flight check that never joins a pending refresh.
RefreshMustStartNeverJoin == TRUE

\* AuthClient.refreshToken, lines 36-39: join unless none is pending
RefreshMustStart == ~(isRefreshing /\ refreshPromise # 0)

\* A finally block that leaves the handle of a failed exchange in place.
HandleKeptAfterFailure(handle) == handle

\* finally { this.isAuthenticating = false; this.authPromise = null } and
\* finally { this.isRefreshing = false; this.refreshPromise = null }
HandleAfterFailure(handle) == 0

\* withAdminAuth(operation) is called: getAdminToken, then operation().
AdminCall(p) ==
    /\ MayEnter(p)
    /\ UNCHANGED << isRefreshing, refreshPromise, now, issued, cfg >>
    /\ IF IsTokenValid
       THEN \* initializeFromStorage(credentials, token, ""); operation()
            /\ accessToken' = adminToken
            /\ userId' = ""
            /\ call' = [call EXCEPT ![p] =
                   InvokeOperation([@ EXCEPT !.kind = "admin"], "op1", adminToken)]
            /\ UNCHANGED << adminToken, tokenExpiry, isAuthenticating,
                            authPromise, exch >>
       ELSE IF ~AdminMustStart
       THEN \* authenticateAdmin returns the pending promise
            /\ call' = [call EXCEPT ![p] =
                   [@ EXCEPT !.kind = "admin", !.pc = "token1",
                             !.waits = authPromise]]
            /\ UNCHANGED << adminToken, tokenExpiry, isAuthenticating,
                            authPromise, accessToken, userId, exch >>
       ELSE IF ~cfg.adminCreds
       THEN \* performAdminAuth throws before any request; finally clears
            /\ call' = [call EXCEPT ![p] =
                   [@ EXCEPT !.kind = "admin", !.pc = "done",
                             !.res = "EAdminCreds", !.from = "auth"]]
            /\ adminToken' = IF "EAdminCreds" \in AdminAuthErrorIds
                             THEN 0 ELSE adminToken
            /\ tokenExpiry' = IF "EAdminCreds" \in AdminAuthErrorIds
                              THEN 0 ELSE tokenExpiry
            /\ UNCHANGED << isAuthenticating, authPromise, accessToken,
                            userId, exch >>
       ELSE \* performAdminAuth sends the credentials
            /\ isAuthenticating' = TRUE
            /\ exch' = Append(exch, PendingExchange("admin"))
            /\ authPromise' = Len(exch) + 1
            /\ call' = [call EXCEPT ![p] =
                   [@ EXCEPT !.kind = "admin", !.pc = "token1",
                             !.waits = Len(exch) + 1]]
            /\ UNCHANGED << adminToken, tokenExpiry, accessToken, userId >>
    /\ UNCHANGED << pollVars, pipeVars, restVars >>

\* The callers awaiting the pending admin authentication.
AdminWaiters(at) ==
    { p \in Callers : call[p].kind = "admin" /\ call[p].pc = at
                      /\ call[p].waits = authPromise }

\* jellyfinClient.authenticate succeeds: performAdminAuth caches the token,
\* the owner's finally clears the handle, every waiter goes on to
\* initializeFromStorage and operation().
AdminAuthSucceeds ==
    /\ authPromise # 0
    /\ LET ex == authPromise
           t == issued + 1
       IN /\ issued' = t
          /\ adminToken' = t
          /\ tokenExpiry' = now + TokenLifetimeHours
          /\ isAuthenticating' = FALSE
          /\ authPromise' = 0
          /\ exch' = [exch EXCEPT ![ex] = [@ EXCEPT !.st = "ok", !.tok = t]]
          /\ accessToken' = t
          /\ userId' = IF AdminWaiters("token1") \cup AdminWaiters("token2") = {}
                       THEN userId ELSE ""
          /\ call' = [p \in Callers |->
                IF p \in AdminWaiters("token1") \cup AdminWaiters("token2")
                THEN InvokeOperation(
                        [call[p] EXCEPT !.waits = 0,
                                        !.got = Append(@, <<ex, t>>)],
                        IF call[p].pc = "token1" THEN "op1" ELSE "op2", t)
                ELSE call[p]]
    /\ UNCHANGED << isRefreshing, refreshPromise, now, cfg >>
    /\ UNCHANGED << pollVars, pipeVars, restVars >>

\* jellyfinClient.authenticate fails.  The owner's finally clears the handle;
\* a waiter inside the catch block of withAdminAuth rethrows; a waiter inside
\* its try block classifies the error and, if it is an auth error, clears the
\* token and asks for a token again: the first starts an authentication, the
\* others join it.
AdminAuthFails ==
    /\ authPromise # 0
    /\ LET ex == authPromise
           again == IF "EAdminAuthFailed" \in AdminAuthErrorIds
                    THEN AdminWaiters("token1") ELSE {}
           over == (AdminWaiters("token1") \cup AdminWaiters("token2")) \ again
       IN /\ exch' = IF again = {}
                     THEN [exch EXCEPT ![ex] = [@ EXCEPT !.st = "failed"]]
                     ELSE Append([exch EXCEPT ![ex] = [@ EXCEPT !.st = "failed"]],
                                 PendingExchange("admin"))
          /\ isAuthenticating' = (again # {})
          /\ authPromise' = IF again = {}
                              THEN HandleAfterFailure(authPromise)
                              ELSE Len(exch) + 1
          /\ adminToken' = IF again = {} THEN adminToken ELSE 0
          /\ tokenExpiry' = IF again = {} THEN tokenExpiry ELSE 0
          /\ call' = [p \in Callers |->
                IF p \in again
                THEN [call[p] EXCEPT !.pc = "token2", !.waits = Len(exch) + 1,
                                     !.got = Append(@, <<ex, 0>>)]
                ELSE IF p \in over
                THEN [call[p] EXCEPT !.pc = "done", !.waits = 0,
                                     !.res = "EAdminAuthFailed",
                                     !.from = "auth",
                                     !.got = Append(@, <<ex, 0>>)]
                ELSE call[p]]
    /\ UNCHANGED << isRefreshing, refreshPromise, accessToken, userId, now,
                    issued, cfg >>
    /\ UNCHANGED << pollVars, pipeVars, restVars >>

\* How a request can end.  The server may stop accepting any token at any
\* moment (it expires or is revoked there), so a request is served, rejected
\* for its token, or fails for a reason that has nothing to do with the token.
RejectedErrors == { "E401" }
OtherErrors == { "E500", "EJsonToken" }
Outcomes == {"ok"} \cup RejectedErrors \cup OtherErrors

\* AuthClient.getStoredCredentials: the credentials kept in localStorage
StoredCredentials == cfg.storedCreds

\* The callers awaiting the pending token refresh.
RefreshWaiters ==
    { p \in Callers : call[p].kind = "user" /\ call[p].pc = "token2"
                      /\ call[p].waits = refreshPromise }

\* withTokenRefresh(operation) is called: operation() runs at once.
UserCall(p) ==
    /\ MayEnter(p)
    /\ call' = [call EXCEPT ![p] =
           InvokeOperation([@ EXCEPT !.kind = "user"], "op1", accessToken)]
    /\ UNCHANGED << adminToken, tokenExpiry, isAuthenticating, authPromise,
                    isRefreshing, refreshPromise, accessToken, userId, now,
                    issued, cfg, exch >>
    /\ UNCHANGED << pollVars, pipeVars, restVars >>

\* The catch block of withAdminAuth, lines 124-146, for error e of operation().
AdminCatch(p, e) ==
    IF e \notin AdminAuthErrorIds
    THEN /\ call' = [call EXCEPT ![p] = [@ EXCEPT !.pc = "done", !.err1 = e,
                                                  !.res = e, !.from = "op1"]]
         /\ UNCHANGED << adminToken, tokenExpiry, isAuthenticating,
                         authPromise, exch >>
    ELSE /\ adminToken' = 0
         /\ tokenExpiry' = 0
         /\ IF ~AdminMustStart
            THEN /\ call' = [call EXCEPT ![p] =
                        [@ EXCEPT !.pc = "token2", !.err1 = e,
                                  !.waits = authPromise,
                                  !.refreshEx = authPromise]]
                 /\ UNCHANGED << isAuthenticating, authPromise, exch >>
            ELSE IF ~cfg.adminCreds
            THEN /\ call' = [call EXCEPT ![p] =
                        [@ EXCEPT !.pc = "done", !.err1 = e,
                                  !.res = "EAdminCreds", !.from = "auth"]]
                 /\ UNCHANGED << isAuthenticating, authPromise, exch >>
            ELSE /\ isAuthenticating' = TRUE
                 /\ exch' = Append(exch, PendingExchange("admin"))
                 /\ authPromise' = Len(exch) + 1
                 /\ call' = [call EXCEPT ![p] =
                        [@ EXCEPT !.pc = "token2", !.err1 = e,
                                  !.waits = Len(exch) + 1,
                                  !.refreshEx = Len(exch) + 1]]

\* The catch block of withTokenRefresh, lines 153-181, for error e.
UserCatch(p, e) ==
    IF e \notin AuthErrorIds
    THEN /\ call' = [call EXCEPT ![p] = [@ EXCEPT !.pc = "done", !.err1 = e,
                                                  !.res = e, !.from = "op1"]]
         /\ UNCHANGED << isRefreshing, refreshPromise, exch >>
    ELSE IF ~RefreshMustStart
    THEN /\ call' = [call EXCEPT ![p] =
                [@ EXCEPT !.pc = "token2", !.err1 = e,
                          !.waits = refreshPromise,
                          !.refreshEx = refreshPromise]]
         /\ UNCHANGED << isRefreshing, refreshPromise, exch >>
    ELSE IF ~StoredCredentials
    THEN \* performTokenRefresh throws before its try block
         /\ call' = [call EXCEPT ![p] =
                [@ EXCEPT !.pc = "done", !.err1 = e,
                          !.res = "ENoStoredCreds", !.from = "auth"]]
         /\ UNCHANGED << isRefreshing, refreshPromise, exch >>
    ELSE /\ isRefreshing' = TRUE
         /\ exch' = Append(exch, PendingExchange("user"))
         /\ refreshPromise' = Len(exch) + 1
         /\ call' = [call EXCEPT ![p] =
                [@ EXCEPT !.pc = "token2", !.err1 = e,
                          !.waits = Len(exch) + 1,
                          !.refreshEx = Len(exch) + 1]]

\* The first request of a caller is answered.
FirstOperationSettles(p) ==
    /\ call[p].pc = "op1"
    /\ \E out \in Outcomes :
          IF out = "ok"
          THEN /\ call' = [call EXCEPT ![p] = [@ EXCEPT !.pc = "done",
                                                        !.res = "ok",
                                                        !.from = "op1"]]
               /\ UNCHANGED << adminToken, tokenExpiry, isAuthenticating,
                               authPromise, isRefreshing, refreshPromise,
                               exch >>
          ELSE IF call[p].kind = "admin"
          THEN /\ AdminCatch(p, out)
               /\ UNCHANGED << isRefreshing, refreshPromise >>
          ELSE /\ UserCatch(p, out)
               /\ UNCHANGED << adminToken, tokenExpiry, isAuthenticating,
                               authPromise >>
    /\ UNCHANGED << accessToken, userId, now, issued, cfg >>
    /\ UNCHANGED << pollVars, pipeVars, restVars >>

\* The retried request is answered: its result is the caller's result.
RetrySettles(p) ==
    /\ call[p].pc = "op2"
    /\ \E out \in Outcomes :
          call' = [call EXCEPT ![p] = [@ EXCEPT !.pc = "done", !.res = out,
                                                !.from = "op2"]]
    /\ UNCHANGED << adminToken, tokenExpiry, isAuthenticating, authPromise,
                    isRefreshing, refreshPromise, accessToken, userId, now,
                    issued, cfg, exch >>
    /\ UNCHANGED << pollVars, pipeVars, restVars >>

\* performTokenRefresh succeeds: the singleton gets the new token, the
\* owner's finally clears the handle, every waiter retries operation().
RefreshSucceeds ==
    /\ refreshPromise # 0
    /\ LET ex == refreshPromise
           t == issued + 1
       IN /\ issued' = t
          /\ accessToken' = t
          /\ isRefreshing' = FALSE
          /\ refreshPromise' = 0
          /\ exch' = [exch EXCEPT ![ex] = [@ EXCEPT !.st = "ok", !.tok = t]]
          /\ call' = [p \in Callers |->
                IF p \in RefreshWaiters
                THEN InvokeOperation(
                        [call[p] EXCEPT !.waits = 0,
                                        !.got = Append(@, <<ex, t>>)],
                        "op2", t)
                ELSE call[p]]
    /\ UNCHANGED << adminToken, tokenExpiry, isAuthenticating, authPromise,
                    userId, now, cfg >>
    /\ UNCHANGED << pollVars, pipeVars, restVars >>

\* performTokenRefresh fails: every waiter rethrows "Token refresh failed".
RefreshFails ==
    /\ refreshPromise # 0
    /\ LET ex == refreshPromise
       IN /\ isRefreshing' = FALSE
          /\ refreshPromise' = HandleAfterFailure(refreshPromise)
          /\ exch' = [exch EXCEPT ![ex] = [@ EXCEPT !.st = "failed"]]
          /\ call' = [p \in Callers |->
                IF p \in RefreshWaiters
                THEN [call[p] EXCEPT !.pc = "done", !.waits = 0,
                                     !.res = "ERefreshFailed",
                                     !.from = "auth",
                                     !.got = Append(@, <<ex, 0>>)]
                ELSE call[p]]
    /\ UNCHANGED << adminToken, tokenExpiry, isAuthenticating, authPromise,
                    accessToken, userId, now, issued, cfg >>
    /\ UNCHANGED << pollVars, pipeVars, restVars >>

\* Time passes; the clock is read only to test the expiry of a cached token.
Tick ==
    /\ adminToken # 0
    /\ now + TickHours <= MaxNow
    /\ now' = now + TickHours
    /\ UNCHANGED << adminToken, tokenExpiry, isAuthenticating, authPromise,
                    isRefreshing, refreshPromise, accessToken, userId,
                    issued, cfg, call, exch >>
    /\ UNCHANGED << pollVars, pipeVars, restVars >>

GuardNext ==
    \/ \E p \in Callers : AdminCall(p)
    \/ \E p \in Callers : UserCall(p)
    \/ \E p \in Callers : FirstOperationSettles(p)
    \/ \E p \in Callers : RetrySettles(p)
    \/ AdminAuthSucceeds
    \/ AdminAuthFails
    \/ RefreshSucceeds
    \/ RefreshFails
    \/ Tick

SpecGuard == InitGuard /\ [][GuardNext]_vars

\* ---------------------------------------------------- session guard: claims
Guards == { "admin", "user" }

\* The exchanges of a guard that have not settled.
PendingOf(guard) ==
    { i \in 1..Len(exch) : exch[i].guard = guard /\ exch[i].st = "pending" }

\* C3: callers that ask for a token while none is cached and an exchange is
\* pending join that exchange: a guard never has two exchanges pending, every
\* waiting caller waits on the pending one, and what a caller received from an
\* exchange is that exchange's outcome (its token, or 0 for its failure).
C3_SingleFlight ==
    /\ \A g \in Guards : Cardinality(PendingOf(g)) <= 1
    /\ \A p \in Callers :
          call[p].pc \in {"token1", "token2"} =>
              call[p].waits \in PendingOf(call[p].kind)
    /\ \A p \in Callers : \A k \in 1..Len(call[p].got) :
          LET ex == call[p].got[k][1]
          IN /\ ex \in 1..Len(exch)
             /\ exch[ex].st # "pending"
             /\ call[p].got[k][2] = exch[ex].tok
             /\ (exch[ex].st = "failed") = (call[p].got[k][2] = 0)

\* Two callers were served by one exchange.
C3_Witness ==
    \E p, q \in Callers :
        /\ p # q
        /\ call[p].got # << >>
        /\ call[q].got # << >>
        /\ call[p].got[1] = call[q].got[1]

\* The claim's own reading of "classified as an auth error".
ClaimedAuthError(id) ==
    \/ ErrorOf(id).status \in {401, 403}
    \/ ErrorOf(id).respStatus \in {401, 403}
    \/ \E kw \in {KwUnauthorized, KwForbidden, KwAuthentication, KwToken} :
          Includes(ToLowerCase(ErrorOf(id).message), kw)

\* The errors of the model the claim counts as auth errors.
ClaimedAuthErrorIds == { id \in ErrorIds : ClaimedAuthError(id) }

\* The refresh a caller awaited after operation() failed gave it a token.
Refreshed(p) ==
    \E k \in 1..Len(call[p].got) :
        call[p].got[k][1] = call[p].refreshEx /\ call[p].got[k][2] # 0

C5_OneRefreshServesAll ==
    \A p, q \in Callers :
        ( /\ call[p].kind = call[q].kind
          /\ call[p].tok1 # 0
          /\ call[p].tok1 = call[q].tok1
          /\ call[p].refreshEx # 0
          /\ call[q].refreshEx # 0 ) =>
            call[p].refreshEx = call[q].refreshEx

\* ----------------------------------------------------- library index poller
NameScanMediaLibrary ==
    <<"S","c","a","n"," ","M","e","d","i","a"," ","L","i","b","r","a","r","y">>
KeyRefreshLibrary ==
    <<"R","e","f","r","e","s","h","L","i","b","r","a","r","y">>
NameExtractChapterImages ==
    <<"E","x","t","r","a","c","t"," ","C","h","a","p","t","e","r"," ",
      "I","m","a","g","e","s">>
KeyRefreshChapterImages ==
    <<"R","e","f","r","e","s","h","C","h","a","p","t","e","r",
      "I","m","a","g","e","s">>
NameCleanCache ==
    <<"C","l","e","a","n"," ","C","a","c","h","e"," ",
      "D","i","r","e","c","t","o","r","y">>
KeyDeleteCacheFiles ==
    <<"D","e","l","e","t","e","C","a","c","h","e","F","i","l","e","s">>
KwScan == <<"s","c","a","n">>
KwLibrary == <<"l","i","b","r","a","r","y">>
KwRefresh == <<"r","e","f","r","e","s","h">>

\* The scheduled tasks GET /ScheduledTasks lists (JellyfinTask: Name, Key).
TaskIds == { "scanLibrary", "chapterImages", "cleanCache" }
TaskOf(t) ==
    CASE t = "scanLibrary" ->
           [Name |-> NameScanMediaLibrary, Key |-> KeyRefreshLibrary]
      [] t = "chapterImages" ->
           [Name |-> NameExtractChapterImages, Key |-> KeyRefreshChapterImages]
      [] t = "cleanCache" ->
           [Name |-> NameCleanCache, Key |-> KeyDeleteCacheFiles]

\* JellyfinTask.State
TaskStates == { "Idle", "Running", "Cancelling", "Cancelled" }
\* The states each task is taken through.
StatesOf(t) ==
    IF t = "scanLibrary" THEN TaskStates ELSE { "Idle", "Running" }

\* The filter that selects the scan tasks.
IsScanTask(task) ==
    LET name == ToLowerCase(task.Name)
        key == ToLowerCase(task.Key)
    IN  \/ Includes(name, KwScan)
        \/ Includes(name, KwLibrary)
        \/ Includes(name, KwRefresh)
        \/ Includes(key, KwRefresh)
        \/ Includes(key, KwScan)

\* A variant that counts a task being cancelled as finished.
IsRunningStateRunningOnly(state) == state = "Running"

\* The filter that selects the running ones among the scan tasks.
IsRunningState(state) == state = "Running" \/ state = "Cancelling"

\* scanTasks: the filter applied to the tasks of the model, computed once.
ScanTasks == { t \in TaskIds : IsScanTask(TaskOf(t)) }

\* runningScanTasks, computed from the reply of getActiveTasks
RunningScanTasks(reply) == { t \in ScanTasks : IsRunningState(reply[t]) }

\* What the poller has seen of the tasks so far.
NothingSeen == [kind |-> "none", states |-> << >>]
ErrorSeen == [kind |-> "error", states |-> << >>]
TasksSeen(reply) == [kind |-> "tasks", states |-> reply]

\* The calls the repository makes: (120000, 3000) in the radio route and the
\* defaults (120000, 2000); here in seconds and with shorter waits.
PollArgs ==
    { [maxWaitTimeMs |-> w, pollIntervalMs |-> i] :
        w \in { 0, 5, MaxWaitSeconds }, i \in 2..MaxPollInterval }

\* Date.now() when the wait starts, seconds.
ClockStart == 100
\* The progress report is written at most every 10000 ms.
ProgressLogIntervalMs == 10

InitPoll ==
    /\ pollPc = "idle"
    /\ pollArgs \in PollArgs
    /\ clock = ClockStart
    /\ startTime = 0
    /\ lastProgressLog = 0
    /\ scanResult = ""
    /\ tasks \in [TaskIds -> { "Idle", "Running" }]
    /\ lastSeen = NothingSeen
    /\ queries = [sent |-> 0, failed |-> 0]
    /\ adminToken = 0
    /\ tokenExpiry = 0
    /\ isAuthenticating = FALSE
    /\ authPromise = 0
    /\ isRefreshing = FALSE
    /\ refreshPromise = 0
    /\ accessToken \in { 0, UserToken }
    /\ userId = "user"
    /\ now = 0
    /\ issued = UserToken
    /\ cfg = [adminCreds |-> TRUE, storedCreds |-> TRUE]
    /\ call = [p \in Callers |-> NewCaller]
    /\ exch = << >>
    /\ PipeIdle
    /\ RestIdle

\* while (Date.now() - startTime < maxWaitTimeMs)
WithinWait(t, start) == t - start < pollArgs.maxWaitTimeMs
\* A variant whose catch block lets the query's error escape.
AfterQueryErrorRethrow == "throw"

\* catch (error): log, then the same sleep as after a busy reply.
AfterQueryError == "sleep"

\* waitForLibraryScanCompletion is called: the precondition, then the first
\* pass of the loop up to the request of getActiveTasks.
PollStart ==
    /\ pollPc = "idle"
    /\ IF accessToken = 0
         THEN /\ pollPc' = "done"
              /\ scanResult' = "throws"
              /\ UNCHANGED << startTime, queries >>
         ELSE /\ startTime' = clock
              /\ IF WithinWait(clock, clock)
                   THEN /\ pollPc' = "query"
                        /\ queries' = [queries EXCEPT !.sent = @ + 1]
                        /\ UNCHANGED scanResult
                   ELSE /\ pollPc' = "done"
                        /\ scanResult' = "false"
                        /\ UNCHANGED queries
    /\ UNCHANGED << pollArgs, clock, lastProgressLog, tasks, lastSeen >>
    /\ UNCHANGED << guardVars, pipeVars, restVars >>

\* getActiveTasks resolves after d seconds with the tasks as they are.
QueryReplies(d) ==
    /\ pollPc = "query"
    /\ clock' = clock + d
    /\ lastSeen' = TasksSeen(tasks)
    /\ IF RunningScanTasks(tasks) = { }
         THEN /\ pollPc' = "done"
              /\ scanResult' = "true"
              /\ UNCHANGED lastProgressLog
         ELSE /\ pollPc' = "sleep"
              /\ lastProgressLog' =
                   IF clock' - lastProgressLog > ProgressLogIntervalMs
                     THEN clock' ELSE lastProgressLog
              /\ UNCHANGED scanResult
    /\ UNCHANGED << pollArgs, startTime, tasks, queries >>
    /\ UNCHANGED << guardVars, pipeVars, restVars >>

\* getActiveTasks rejects after d seconds.
QueryFails(d) ==
    /\ pollPc = "query"
    /\ clock' = clock + d
    /\ lastSeen' = ErrorSeen
    /\ queries' = [queries EXCEPT !.failed = @ + 1]
    /\ IF AfterQueryError = "sleep"
         THEN pollPc' = "sleep" /\ UNCHANGED scanResult
         ELSE pollPc' = "done" /\ scanResult' = "throws"
    /\ UNCHANGED << pollArgs, startTime, lastProgressLog, tasks >>
    /\ UNCHANGED << guardVars, pipeVars, restVars >>

\* The timer of the sleep fires, late seconds after pollIntervalMs; the loop
\* condition is evaluated and either the next query is sent or the wait ends.
TimerFires(late) ==
    /\ pollPc = "sleep"
    /\ clock' = clock + pollArgs.pollIntervalMs + late
    /\ IF WithinWait(clock', startTime)
         THEN /\ pollPc' = "query"
              /\ queries' = [queries EXCEPT !.sent = @ + 1]
              /\ UNCHANGED scanResult
         ELSE /\ pollPc' = "done"
              /\ scanResult' = "false"
              /\ UNCHANGED queries
    /\ UNCHANGED << pollArgs, startTime, lastProgressLog, tasks, lastSeen >>
    /\ UNCHANGED << guardVars, pipeVars, restVars >>

\* The server starts, cancels or ends a task while the wait is in progress.
TaskChanges(t, state) ==
    /\ pollPc \in { "query", "sleep" }
    /\ tasks[t] # state
    /\ tasks' = [tasks EXCEPT ![t] = state]
    /\ UNCHANGED << pollPc, pollArgs, clock, startTime, lastProgressLog,
                    scanResult, lastSeen, queries >>
    /\ UNCHANGED << guardVars, pipeVars, restVars >>

PollNext ==
    \/ PollStart
    \/ \E d \in 0..MaxQueryDelay : QueryReplies(d)
    \/ \E d \in 0..MaxQueryDelay : QueryFails(d)
    \/ \E late \in 0..MaxTimerLate : TimerFires(late)
    \/ \E t \in TaskIds : \E state \in StatesOf(t) : TaskChanges(t, state)

SpecPoll == InitPoll /\ [][PollNext]_vars

\* ---------------------------------------------- library index poller: claims
\* The keyword-matching tasks that a reply shows Running or Cancelling.
ActiveIn(reply) ==
    { t \in ScanTasks : reply[t] \in { "Running", "Cancelling" } }

\* C9: waitForLibraryScanCompletion returns true only when its latest task
\* query showed no keyword-matching task Running or Cancelling, and does so
\* as soon as a query shows that (it never goes on polling after such a
\* reply); it returns false only once maxWaitTimeMs has elapsed, the latest
\* reply, if any, still showing such a task; and no query is sent once
\* maxWaitTimeMs has elapsed.
C9_ScanWaitResult ==
    /\ scanResult = "true" =>
         /\ lastSeen.kind = "tasks"
         /\ ActiveIn(lastSeen.states) = { }
    /\ (pollPc \in { "query", "sleep" } /\ lastSeen.kind = "tasks") =>
         ActiveIn(lastSeen.states) # { }
    /\ scanResult = "false" =>
         /\ ~WithinWait(clock, startTime)
         /\ lastSeen.kind = "tasks" => ActiveIn(lastSeen.states) # { }
    /\ pollPc = "query" => WithinWait(clock, startTime)

\* The wait saw the scan active, polled again and returned true.
C9_Witness ==
    /\ scanResult = "true"
    /\ queries.sent >= 2
    /\ queries.failed = 0

\* The wait timed out with a scan task still active in the latest reply.
C9_WitnessTimeout ==
    /\ scanResult = "false"
    /\ lastSeen.kind = "tasks"
    /\ "scanLibrary" \in ActiveIn(lastSeen.states)

\* C10: a failed task query does not end the wait: after it the poller
\* sleeps and then either queries again or returns false on the timeout;
\* once a query has been sent the wait ends only with true or false, and it
\* throws only from its precondition, before any query.
C10_QueryFailureDoesNotAbort ==
    /\ scanResult = "throws" => queries.sent = 0
    /\ (pollPc = "done" /\ queries.sent > 0) =>
         scanResult \in { "true", "false" }
    /\ lastSeen.kind = "error" =>
         \/ pollPc \in { "sleep", "query" }
         \/ pollPc = "done" /\ scanResult = "false"
    /\ (lastSeen.kind = "error" /\ pollPc = "query") =>
         queries.sent > queries.failed

\* A query failed, the poller queried again and the wait returned true.
C10_Witness ==
    /\ queries.failed >= 1
    /\ scanResult = "true"

\* ------------------------------------------------------------ radio pipeline
\* The session token of a second request served by the same process.
OtherUserToken == 2

Min(a, b) == IF a <= b THEN a ELSE b
Max(a, b) == IF a >= b THEN a ELSE b

\* A JavaScript number that is an integer or NaN.
Number(v) == [nan |-> FALSE, value |-> v]
NaN == [nan |-> TRUE, value |-> 0]
Plus(a, b) == IF a.nan \/ b.nan THEN NaN ELSE Number(a.value + b.value)
LessThan(a, b) == ~a.nan /\ ~b.nan /\ a.value < b.value

DigitChars == << "0", "1", "2", "3", "4", "5", "6", "7", "8", "9" >>
IsDigit(c) == \E d \in 1..Len(DigitChars) : DigitChars[d] = c
DigitValue(c) == (CHOOSE d \in 1..Len(DigitChars) : DigitChars[d] = c) - 1

\* The decimal digits a text begins with, as a number (0 for none).
RECURSIVE LeadingDigits(_, _)
LeadingDigits(text, acc) ==
    IF Len(text) = 0 \/ ~IsDigit(Head(text)) THEN acc
    ELSE LeadingDigits(Tail(text), 10 * acc + DigitValue(Head(text)))

\* parseInt(text, 10): leading whitespace and a sign are skipped, the digits
\* that follow are read up to the first other character; none gives NaN.
RECURSIVE ParseInt(_)
ParseInt(text) ==
    IF Len(text) = 0 THEN NaN
    ELSE IF Head(text) \in { " ", "\t", "\n", "\r" } THEN ParseInt(Tail(text))
    ELSE LET signed == Head(text) \in { "-", "+" }
             digits == IF signed THEN Tail(text) ELSE text
             value == LeadingDigits(digits, 0)
         IN  IF Len(digits) = 0 \/ ~IsDigit(Head(digits)) THEN NaN
             ELSE Number(IF Head(text) = "-" THEN 0 - value ELSE value)

\* a || b for strings: the empty string and undefined are falsy
Or(text, default) == IF text = << >> THEN default ELSE text

\* '3'
DefaultConcurrency == << "3" >>
\* The values DOWNLOAD_CONCURRENCY is set to: unset, the numbers up to
\* MaxConcurrency, zero, a negative number and a word.
ConcurrencySettings ==
    { << >>, << "0" >>, << "-", "1" >>, << "a", "b", "c" >> }
      \cup { << DigitChars[k + 1] >> : k \in 1..MaxConcurrency }

\* Array.prototype.filter over the suggestions, as the sequence of the indices
\* kept.
Where(s, Test(_)) == SelectSeq([i \in 1..Len(s) |-> i], Test)

\* One errors entry per index, in order.
ErrorsOf(kind, idxs) ==
    [k \in 1..Len(idxs) |-> [kind |-> kind, idx |-> idxs[k]]]

NewSuggestion ==
    [search |-> "none", query |-> "none", add |-> "none", dl |-> "none",
     find |-> "none"]

\* A variant of songsToDownload that forgets the filter.
SongsToDownloadUnfiltered(s) == Where(s, LAMBDA i : TRUE)

\* foundSongs, songsToDownload and searchErrors
FoundSongs(s) == Where(s, LAMBDA i : s[i].search = "found")
SongsToDownload(s) == Where(s, LAMBDA i : s[i].search = "null")
SearchErrors(s) == Where(s, LAMBDA i : s[i].search = "error")

\* JellyfinClient.initializeFromStorage
InitializeFromStorage(token, uid) == [accessToken |-> token, userId |-> uid]

\* The precondition of createPlaylist, getMusicLibraryId, findSongInLibrary.
HasUserId(client) == client.userId # ""

InitPipe ==
    /\ pc = "start"
    /\ env \in [downloadDir : BOOLEAN, concurrency : ConcurrencySettings]
    /\ ytDlpAvailable = FALSE
    /\ sugg = << >>
    /\ results = NoResults
    /\ batchIndex = 0
    /\ response = NoResponse
    /\ other = "none"
    /\ trigger = NoTrigger
    /\ session = 0
    /\ payload = NoPayload
    /\ cfg \in { [adminCreds |-> b, storedCreds |-> FALSE] : b \in BOOLEAN }
    /\ adminToken \in { 0, OtherUserToken + 1 }
    /\ adminToken # 0 => cfg.adminCreds
    /\ tokenExpiry = IF adminToken = 0 THEN 0 ELSE TokenLifetimeHours
    /\ issued = IF adminToken = 0 THEN OtherUserToken ELSE adminToken
    /\ isAuthenticating = FALSE
    /\ authPromise = 0
    /\ isRefreshing = FALSE
    /\ refreshPromise = 0
    /\ accessToken = 0
    /\ userId = ""
    /\ now = 0
    /\ call = [p \in Callers |-> NewCaller]
    /\ exch = << >>
    /\ PollIdle
    /\ RestIdle

\* The handler moves on: its locals and, when it returns, its reply.
Goto(label, res, s, b, resp) ==
    /\ pc' = label
    /\ results' = res
    /\ sugg' = s
    /\ batchIndex' = b
    /\ response' = resp

\* return NextResponse.json({ success: true, ...results })
ReplyResult(res, s) ==
    Goto("replied", res, s, batchIndex, [status |-> 200, body |-> "result"])

\* return NextResponse.json({ error }, { status })
ReplyError(status) ==
    Goto("replied", results, sugg, batchIndex,
         [status |-> status, body |-> "error"])

AppendErrors(res, errs) == [res EXCEPT !.errors = @ \o errs]

\* Phase 3 has settled all its batches: the counters, the errors, and the
\* decision to scan.
AfterPhase3(res, s) ==
    LET successfulDownloads == Where(s, LAMBDA i : s[i].dl = "ok")
        failedDownloads == Where(s, LAMBDA i : s[i].dl = "failed")
        res1 == AppendErrors(
                    [res EXCEPT !.songsDownloaded = Len(successfulDownloads)],
                    ErrorsOf("download", failedDownloads))
    IN  IF Len(successfulDownloads) > 0
          THEN Goto("phase4", res1, s, batchIndex, response)
          ELSE ReplyResult(res1, s)

\* parseInt(process.env.DOWNLOAD_CONCURRENCY || '3', 10)
DownloadConcurrency == ParseInt(Or(env.concurrency, DefaultConcurrency))

\* Array.prototype.slice(start, end)
SliceIndex(x, n) ==
    IF x.nan THEN 0
    ELSE IF x.value < 0 THEN Max(n + x.value, 0)
    ELSE Min(x.value, n)
Slice(s, start, end) ==
    SubSeq(s, SliceIndex(start, Len(s)) + 1, SliceIndex(end, Len(s)))

\* for (let i = 0; i < songsToDownload.length; i += DOWNLOAD_CONCURRENCY)
\*   downloadBatches.push(songsToDownload.slice(i, i + DOWNLOAD_CONCURRENCY))
\* followed for MaxLoopSteps iterations: the batches pushed so far, and
\* whether the loop has ended.
RECURSIVE BatchLoop(_, _, _, _, _)
BatchLoop(todo, k, i, downloadBatches, steps) ==
    IF ~LessThan(i, Number(Len(todo)))
      THEN [ended |-> TRUE, downloadBatches |-> downloadBatches]
    ELSE IF steps = MaxLoopSteps
      THEN [ended |-> FALSE, downloadBatches |-> downloadBatches]
    ELSE BatchLoop(todo, k, Plus(i, k),
                   Append(downloadBatches, Slice(todo, i, Plus(i, k))),
                   steps + 1)
DownloadBatches(todo, k) == BatchLoop(todo, k, Number(0), << >>, 0)

\* A variant that starts every remaining download at once.
BatchOfUnbounded(todo, b, k) == SubSeq(todo, b * k.value + 1, Len(todo))

\* downloadBatches[b]
BatchOf(todo, b, k) == DownloadBatches(todo, k).downloadBatches[b + 1]

\* The first batch from b on that is not empty, or the number of batches:
\* Promise.all of an empty batch resolves without any download.
RECURSIVE NextBatch(_, _)
NextBatch(downloadBatches, b) ==
    IF b >= Len(downloadBatches) THEN Len(downloadBatches)
    ELSE IF Len(downloadBatches[b + 1]) > 0 THEN b
    ELSE NextBatch(downloadBatches, b + 1)

\* batch.map(...): every download of batch b is started.
StartBatch(res, s, b) ==
    LET batch == BatchOf(SongsToDownload(s), b, DownloadConcurrency)
        started == { batch[k] : k \in 1..Len(batch) }
    IN  Goto("phase3", res,
             [i \in 1..Len(s) |->
                 IF i \in started THEN [s[i] EXCEPT !.dl = "pending"]
                                  ELSE s[i]],
             b, response)

\* A variant of the Phase 3 guard that ignores the yt-dlp check.
CanDownloadUnverified(yt) == env.downloadDir

\* downloadDir && ytDlpAvailable
CanDownload(yt) == env.downloadDir /\ yt

\* The batch loop of Phase 3 from batch b on.  While the loop that builds
\* downloadBatches has not ended the handler stays in it (no await is
\* reached, so nothing else of the process runs either).
RunBatches(res, s, b) ==
    LET partition == DownloadBatches(SongsToDownload(s), DownloadConcurrency)
        next == NextBatch(partition.downloadBatches, b)
    IN  IF ~partition.ended
          THEN Goto("batching", res, s, batchIndex, response)
        ELSE IF next < Len(partition.downloadBatches)
          THEN StartBatch(res, s, next)
        ELSE AfterPhase3(res, s)

\* Phase 3 or the branch that explains why nothing can be downloaded.
StartPhase3(res, s, yt) ==
    LET songsToDownload == SongsToDownload(s)
    IN  IF Len(songsToDownload) > 0 /\ CanDownload(yt)
          THEN RunBatches(res, s, 0)
          ELSE IF Len(songsToDownload) > 0
                 THEN ReplyResult(
                          AppendErrors(res, ErrorsOf("cannot", songsToDownload)),
                          s)
                 ELSE ReplyResult(res, s)

\* Every add of Phase 2 has settled: songsFound, songsAdded, the errors.
AfterPhase2(res, s, yt) ==
    LET added == Where(s, LAMBDA i : s[i].add = "ok")
        failed == Where(s, LAMBDA i : s[i].add = "failed")
        res1 == [res EXCEPT !.songsFound = Len(added),
                            !.songsAdded = @ + Len(added)]
    IN  StartPhase3(AppendErrors(res1, ErrorsOf("add", failed)), s, yt)

\* Every search of Phase 1 has settled: the partition, the search errors and
\* the adds of Phase 2.
AfterPhase1(res, s, yt) ==
    LET res1 == AppendErrors(res, ErrorsOf("search", SearchErrors(s)))
        foundSongs == FoundSongs(s)
    IN  IF Len(foundSongs) > 0
          THEN Goto("phase2", res1,
                    [i \in 1..Len(s) |->
                        IF s[i].search = "found"
                          THEN [s[i] EXCEPT !.add = "pending"] ELSE s[i]],
                    batchIndex, response)
          ELSE StartPhase3(res1, s, yt)

\* A variant that waits for the first search to settle only (Promise.race).
SearchesPendingUntilFirst(s) == \A j \in 1..Len(s) : s[j].search = "pending"

\* Promise.all(searchPromises) is still waiting.
SearchesPending(s) == \E j \in 1..Len(s) : s[j].search = "pending"

\* aiSuggestions.map(...): findSongInLibrary is called for every suggestion;
\* it throws at once when the client has no user id.
StartPhase1(res, s, yt) ==
    LET client == [accessToken |-> accessToken, userId |-> userId]
        s1 == [i \in 1..Len(s) |->
                 [s[i] EXCEPT !.search =
                     IF HasUserId(client) THEN "pending" ELSE "error"]]
    IN  IF SearchesPending(s1)
          THEN Goto("phase1", res, s1, batchIndex, response)
          ELSE AfterPhase1(res, s1, yt)

\* The request arrives: the prompt and the token are checked and the shared
\* client is pointed at the user's session.
Receive(promptOk, hasToken) ==
    /\ pc = "start"
    /\ IF ~promptOk
         THEN ReplyError(400) /\ UNCHANGED << accessToken, userId >>
         ELSE IF ~hasToken
                THEN ReplyError(401) /\ UNCHANGED << accessToken, userId >>
                ELSE /\ accessToken' = InitializeFromStorage(UserToken, "").accessToken
                     /\ userId' = InitializeFromStorage(UserToken, "").userId
                     /\ Goto("session", results, sugg, batchIndex, response)
    /\ UNCHANGED << adminToken, tokenExpiry, isAuthenticating, authPromise,
                    isRefreshing, refreshPromise, now, issued, cfg, call,
                    exch >>
    /\ UNCHANGED << env, ytDlpAvailable, payload, other, trigger, session >>
    /\ UNCHANGED << pollVars, restVars >>

\* The user a token belongs to (response.data.Id of getCurrentUser).
CurrentUserOf(token) ==
    CASE token = UserToken -> "user"
      [] token = OtherUserToken -> "other"
      [] OTHER -> "admin"

\* isAuthenticated settles: getCurrentUser answered for the token the shared
\* client holds, or the call threw.
SessionChecked(ok) ==
    /\ pc = "session"
    /\ IF ok
         THEN /\ userId' = CurrentUserOf(accessToken)
              /\ session' = accessToken
              /\ Goto("suggest", results, sugg, batchIndex, response)
         ELSE /\ ReplyError(500)
              /\ UNCHANGED << userId, session >>
    /\ UNCHANGED << adminToken, tokenExpiry, isAuthenticating, authPromise,
                    isRefreshing, refreshPromise, accessToken, now, issued,
                    cfg, call, exch >>
    /\ UNCHANGED << env, ytDlpAvailable, payload, other, trigger >>
    /\ UNCHANGED << pollVars, restVars >>

\* What generatePlaylistSuggestions may meet: no AWS credentials, a failing
\* send, a response without content[0].text, a text that is no JSON with or
\* without a bracketed part (which is a JSON array or is not), a JSON value
\* that is no array, and a JSON array of items entries.
Payloads ==
    { [shape |-> "list", items |-> n] : n \in 0..MaxSuggestions }
    \cup { [shape |-> sh, items |-> 0] :
             sh \in { "noCredentials", "sendFails", "noContent", "notJson" } }
    \cup { [shape |-> sh, items |-> 1] :
             sh \in { "wrappedList", "wrappedBroken", "object" } }

\* count: the number of suggestions the radio route asks for
SuggestionCount == 25

\* JSON.parse(aiResponse)
JsonParse(p) ==
    CASE p.shape = "list" -> "array"
      [] p.shape = "object" -> "object"
      [] OTHER -> "throws"

\* aiResponse.match(/\[[\s\S]*\]/) and JSON.parse of the match
BracketMatch(p) ==
    CASE p.shape = "wrappedList" -> "array"
      [] p.shape = "wrappedBroken" -> "throws"
      [] OTHER -> "none"

\* A variant without the Array.isArray test.
GeneratePlaylistSuggestionsAnyJson(p) ==
    IF p.shape \in { "noCredentials", "sendFails", "noContent" }
      THEN 0
      ELSE IF JsonParse(p) # "throws"
             THEN Min(p.items, SuggestionCount)
             ELSE IF BracketMatch(p) # "throws" /\ BracketMatch(p) # "none"
                    THEN Min(p.items, SuggestionCount)
                    ELSE 0

\* generatePlaylistSuggestions: the length of the list it resolves with.
GeneratePlaylistSuggestions(p) ==
    IF p.shape \in { "noCredentials", "sendFails", "noContent" }
      THEN 0
      ELSE IF JsonParse(p) # "throws"
             THEN IF JsonParse(p) = "array"
                    THEN Min(p.items, SuggestionCount) ELSE 0
             ELSE IF BracketMatch(p) = "array"
                    THEN Min(p.items, SuggestionCount)
                    ELSE 0

\* generatePlaylistSuggestions resolves and createPlaylist is called.
SuggestionsArrive(p) ==
    /\ pc = "suggest"
    /\ payload' = p
    /\ IF HasUserId([accessToken |-> accessToken, userId |-> userId])
         THEN Goto("create", results,
                   [i \in 1..GeneratePlaylistSuggestions(p) |-> NewSuggestion],
                   batchIndex, response)
         ELSE ReplyError(500)
    /\ UNCHANGED guardVars
    /\ UNCHANGED << env, ytDlpAvailable, other, trigger, session >>
    /\ UNCHANGED << pollVars, restVars >>

\* createPlaylist settles; the results object is built; verifyYtDlp is called
\* when a download directory is configured, and otherwise Phase 1 starts.
PlaylistCreated(ok) ==
    /\ pc = "create"
    /\ IF ~ok
         THEN ReplyError(500)
         ELSE LET res == [NoResults EXCEPT !.playlistId = 1,
                                           !.totalSuggestions = Len(sugg)]
              IN  IF env.downloadDir
                    THEN Goto("ytdlp", res, sugg, batchIndex, response)
                    ELSE StartPhase1(res, sugg, FALSE)
    /\ UNCHANGED guardVars
    /\ UNCHANGED << env, ytDlpAvailable, payload, other, trigger, session >>
    /\ UNCHANGED << pollVars, restVars >>

\* verifyYtDlp resolves and Phase 1 starts.
YtDlpVerified(available) ==
    /\ pc = "ytdlp"
    /\ ytDlpAvailable' = available
    /\ StartPhase1(results, sugg, available)
    /\ UNCHANGED guardVars
    /\ UNCHANGED << env, payload, other, trigger, session >>
    /\ UNCHANGED << pollVars, restVars >>

\* How the queries of one findSongInLibrary call end: one of them has a
\* good match, none has, or searchItems throws.
QueryOutcomes == { "match", "noMatch", "throws" }

\* What findSongInLibrary returns: the best match, or null when there is
\* none; its catch turns a throwing query into null as well.
FindSongInLibrary(outcome) == IF outcome = "match" THEN "found" ELSE "null"

\* A search of Phase 1 resolves, with a song or with null; the last one lets
\* Promise.all go on.
SearchSettles(i, outcome) ==
    /\ pc = "phase1"
    /\ i \in 1..Len(sugg)
    /\ sugg[i].search = "pending"
    /\ LET s == [sugg EXCEPT ![i].search = FindSongInLibrary(outcome),
                             ![i].query = outcome]
       IN  IF SearchesPending(s)
             THEN Goto("phase1", results, s, batchIndex, response)
             ELSE AfterPhase1(results, s, ytDlpAvailable)
    /\ UNCHANGED guardVars
    /\ UNCHANGED << env, ytDlpAvailable, payload, other, trigger, session >>
    /\ UNCHANGED << pollVars, restVars >>

\* An add of Phase 2 settles.
AddSettles(i, ok) ==
    /\ pc = "phase2"
    /\ i \in 1..Len(sugg)
    /\ sugg[i].add = "pending"
    /\ LET s == [sugg EXCEPT ![i].add = IF ok THEN "ok" ELSE "failed"]
       IN  IF \E j \in 1..Len(s) : s[j].add = "pending"
             THEN Goto("phase2", results, s, batchIndex, response)
             ELSE AfterPhase2(results, s, ytDlpAvailable)
    /\ UNCHANGED guardVars
    /\ UNCHANGED << env, ytDlpAvailable, payload, other, trigger, session >>
    /\ UNCHANGED << pollVars, restVars >>

\* A download of the current batch settles (downloadSong never throws); the
\* last one of the batch starts the next batch or ends Phase 3.
DownloadSettles(i, ok) ==
    /\ pc = "phase3"
    /\ i \in 1..Len(sugg)
    /\ sugg[i].dl = "pending"
    /\ LET s == [sugg EXCEPT ![i].dl = IF ok THEN "ok" ELSE "failed"]
       IN  IF \E j \in 1..Len(s) : s[j].dl = "pending"
             THEN Goto("phase3", results, s, batchIndex, response)
             ELSE RunBatches(results, s, batchIndex + 1)
    /\ UNCHANGED guardVars
    /\ UNCHANGED << env, ytDlpAvailable, payload, other, trigger, session >>
    /\ UNCHANGED << pollVars, restVars >>
\* Phase 4 begins: withAdminAuth obtains the admin token (cached, or by an
\* exchange that succeeds or keeps failing), points the shared client at the
\* admin session with an empty user id and calls triggerMusicLibraryScan,
\* which suspends before its body runs.
TriggerBegins(auth) ==
    /\ pc = "phase4"
    /\ IsTokenValid => auth = "cached"
    /\ ~IsTokenValid => auth # "cached"
    /\ (~IsTokenValid /\ ~cfg.adminCreds) => auth = "failed"
    /\ IF auth = "failed"
         THEN /\ ReplyError(500)
              /\ adminToken' = 0
              /\ tokenExpiry' = 0
              /\ UNCHANGED << accessToken, userId, issued >>
         ELSE /\ adminToken' = IF auth = "cached" THEN adminToken
                                                  ELSE issued + 1
              /\ tokenExpiry' = IF auth = "cached" THEN tokenExpiry
                                                   ELSE now + TokenLifetimeHours
              /\ issued' = IF auth = "cached" THEN issued ELSE issued + 1
              /\ accessToken' =
                   InitializeFromStorage(adminToken', "").accessToken
              /\ userId' = InitializeFromStorage(adminToken', "").userId
              /\ Goto("trigger", results, sugg, batchIndex, response)
    /\ trigger' = IF auth = "failed"
                    THEN trigger
                    ELSE [trigger EXCEPT !.calls = @ + 1]
    /\ UNCHANGED << isAuthenticating, authPromise, isRefreshing,
                    refreshPromise, now, cfg, call, exch >>
    /\ UNCHANGED << env, ytDlpAvailable, payload, other, session >>
    /\ UNCHANGED << pollVars, restVars >>

\* The body of triggerMusicLibraryScan runs: getMusicLibraryId throws
\* "Not authenticated" unless the client has a user id; neither guard
\* classifies that as an auth error, and nothing in Phase 4 catches it.
\* With a user id the collection folders are requested.
TriggerRuns ==
    /\ pc = "trigger"
    /\ IF HasUserId([accessToken |-> accessToken, userId |-> userId])
         THEN Goto("libraryId", results, sugg, batchIndex, response)
         ELSE ReplyError(500)
    /\ UNCHANGED guardVars
    /\ UNCHANGED << env, ytDlpAvailable, payload, other, trigger, session >>
    /\ UNCHANGED << pollVars, restVars >>

\* The collection folders a server may list, by CollectionType.
FolderLists ==
    { << >>, << "movies" >>, << "music" >>, << "movies", "music" >>,
      << "music", "movies", "music" >> }

\* Items?.find(item => item.CollectionType === "music"), then its Id (the
\* position in the list stands for the Id) or null (0).
MusicLibraryOfFirstFolder(folders) ==
    IF Len(folders) = 0 THEN 0 ELSE 1
MusicLibraryOf(folders) ==
    IF \E i \in 1..Len(folders) : folders[i] = "music"
      THEN CHOOSE i \in 1..Len(folders) :
             /\ folders[i] = "music"
             /\ \A j \in 1..(i - 1) : folders[j] # "music"
      ELSE 0

\* getMusicLibraryId resolves.  Without a music library the function returns
\* null with no further request and the run replies; with one, the active
\* tasks are requested (tasksBefore).
LibraryIdArrives(folders) ==
    /\ pc = "libraryId"
    /\ trigger' = [trigger EXCEPT !.folders = folders, !.listed = TRUE]
    /\ IF MusicLibraryOf(folders) = 0
         THEN ReplyResult(
                  AppendErrors(results,
                               << [kind |-> "triggerFailed", idx |-> 0] >>),
                  sugg)
         ELSE Goto("tasksBefore", results, sugg, batchIndex, response)
    /\ UNCHANGED guardVars
    /\ UNCHANGED << env, ytDlpAvailable, payload, other, session >>
    /\ UNCHANGED << pollVars, restVars >>

\* tasksBefore arrives and POST /Items/{musicLibraryId}/Refresh is sent.
TasksBeforeArrive ==
    /\ pc = "tasksBefore"
    /\ trigger' = [trigger EXCEPT
                     !.refreshes = Append(@, MusicLibraryOf(trigger.folders))]
    /\ Goto("refresh", results, sugg, batchIndex, response)
    /\ UNCHANGED guardVars
    /\ UNCHANGED << env, ytDlpAvailable, payload, other, session >>
    /\ UNCHANGED << pollVars, restVars >>

\* The refresh request is answered; after one second the active tasks are
\* requested again (tasksAfter).
RefreshAccepted ==
    /\ pc = "refresh"
    /\ Goto("tasksAfter", results, sugg, batchIndex, response)
    /\ UNCHANGED guardVars
    /\ UNCHANGED << env, ytDlpAvailable, payload, other, trigger, session >>
    /\ UNCHANGED << pollVars, restVars >>

\* What the scan task shows in tasksAfter.
TasksAfterStates == { "absent", "Idle", "Running" }

\* triggerMusicLibraryScan settles with the library's id whatever tasksAfter
\* shows (it is only logged).  The wait then starts, under withAdminAuth.
TriggerSettles(scanTask) ==
    /\ pc = "tasksAfter"
    /\ trigger' = [trigger EXCEPT !.tasksAfter = scanTask]
    /\ accessToken' = InitializeFromStorage(adminToken, "").accessToken
    /\ userId' = InitializeFromStorage(adminToken, "").userId
    /\ Goto("wait", results, sugg, batchIndex, response)
    /\ UNCHANGED << adminToken, tokenExpiry, isAuthenticating, authPromise,
                    isRefreshing, refreshPromise, now, issued, cfg, call,
                    exch >>
    /\ UNCHANGED << env, ytDlpAvailable, payload, other, session >>
    /\ UNCHANGED << pollVars, restVars >>

\* What leaves withTokenRefresh when a request fails with e: an auth error
\* starts a refresh, which without stored credentials throws its own error
\* (rethrown in place of e); any other error is rethrown as it is.
ServerSideFailure(e) ==
    IF e \in AuthErrorIds /\ ~StoredCredentials THEN "ENoStoredCreds" ELSE e

\* The catch of withAdminAuth retries the operation on an auth error.
AdminRetries(e) == e \in AdminAuthErrorIds

\* One of the four requests of triggerMusicLibraryScan fails.  The error
\* leaves both withTokenRefresh wrappers and reaches withAdminAuth: on an
\* auth error of the first attempt it drops the admin token, authenticates
\* again and calls triggerMusicLibraryScan a second time; otherwise the
\* error reaches the route's catch.
TriggerRequestFails(e) ==
    /\ pc \in { "libraryId", "tasksBefore", "refresh", "tasksAfter" }
    /\ IF AdminRetries(ServerSideFailure(e)) /\ ~trigger.retried
         THEN /\ adminToken' = 0
              /\ tokenExpiry' = 0
              /\ trigger' = [trigger EXCEPT !.retried = TRUE]
              /\ Goto("phase4", results, sugg, batchIndex, response)
         ELSE /\ ReplyError(500)
              /\ UNCHANGED << adminToken, tokenExpiry, trigger >>
    /\ UNCHANGED << isAuthenticating, authPromise, isRefreshing,
                    refreshPromise, accessToken, userId, now, issued, cfg,
                    call, exch >>
    /\ UNCHANGED << env, ytDlpAvailable, payload, other, session >>
    /\ UNCHANGED << pollVars, restVars >>

\* waitForLibraryScanCompletion(120000, 3000) settles.  After a completed
\* scan every find of Phase 5 runs under withAdminAuth, which empties the
\* client's user id right before findSongInLibrary tests it.
WaitSettles(scanCompleted) ==
    /\ pc = "wait"
    /\ IF scanCompleted
         THEN LET client == InitializeFromStorage(adminToken, "")
                  successfulDownloads == Where(sugg, LAMBDA i : sugg[i].dl = "ok")
              IN  /\ accessToken' = client.accessToken
                  /\ userId' = client.userId
                  /\ IF HasUserId(client)
                       THEN Goto("phase5", results,
                                 [i \in 1..Len(sugg) |->
                                    IF sugg[i].dl = "ok"
                                      THEN [sugg[i] EXCEPT !.find = "pending"]
                                      ELSE sugg[i]],
                                 batchIndex, response)
                       ELSE ReplyResult(
                                AppendErrors(results,
                                    ErrorsOf("notFound", successfulDownloads)),
                                [i \in 1..Len(sugg) |->
                                    IF sugg[i].dl = "ok"
                                      THEN [sugg[i] EXCEPT !.find = "error"]
                                      ELSE sugg[i]])
         ELSE /\ ReplyResult(
                     AppendErrors(results,
                                  << [kind |-> "scanTimeout", idx |-> 0] >>),
                     sugg)
              /\ UNCHANGED << accessToken, userId >>
    /\ UNCHANGED << adminToken, tokenExpiry, isAuthenticating, authPromise,
                    isRefreshing, refreshPromise, now, issued, cfg, call,
                    exch >>
    /\ UNCHANGED << env, ytDlpAvailable, payload, other, trigger, session >>
    /\ UNCHANGED << pollVars, restVars >>

\* A second request reaches its own initializeFromStorage(config, token, "").
OtherRequestInitializes ==
    /\ pc \notin { "start", "batching", "replied" }
    /\ other = "none"
    /\ other' = "initialized"
    /\ accessToken' = InitializeFromStorage(OtherUserToken, "").accessToken
    /\ userId' = InitializeFromStorage(OtherUserToken, "").userId
    /\ UNCHANGED << adminToken, tokenExpiry, isAuthenticating, authPromise,
                    isRefreshing, refreshPromise, now, issued, cfg, call,
                    exch >>
    /\ UNCHANGED << pc, env, ytDlpAvailable, sugg, results, batchIndex,
                    response, trigger, session, payload >>
    /\ UNCHANGED << pollVars, restVars >>

\* The second request's isAuthenticated stores its user's id in the client.
OtherRequestChecked ==
    /\ pc \notin { "start", "batching", "replied" }
    /\ other = "initialized"
    /\ other' = "checked"
    /\ userId' = CurrentUserOf(accessToken)
    /\ UNCHANGED << adminToken, tokenExpiry, isAuthenticating, authPromise,
                    isRefreshing, refreshPromise, accessToken, now, issued,
                    cfg, call, exch >>
    /\ UNCHANGED << pc, env, ytDlpAvailable, sugg, results, batchIndex,
                    response, trigger, session, payload >>
    /\ UNCHANGED << pollVars, restVars >>

Next ==
    \/ \E promptOk, hasToken \in BOOLEAN : Receive(promptOk, hasToken)
    \/ \E ok \in BOOLEAN : SessionChecked(ok)
    \/ \E p \in Payloads : SuggestionsArrive(p)
    \/ \E ok \in BOOLEAN : PlaylistCreated(ok)
    \/ \E available \in BOOLEAN : YtDlpVerified(available)
    \/ \E i \in 1..MaxSuggestions, outcome \in QueryOutcomes :
          SearchSettles(i, outcome)
    \/ \E i \in 1..MaxSuggestions, ok \in BOOLEAN : AddSettles(i, ok)
    \/ \E i \in 1..MaxSuggestions, ok \in BOOLEAN : DownloadSettles(i, ok)
    \/ \E auth \in { "cached", "exchanged", "failed" } : TriggerBegins(auth)
    \/ TriggerRuns
    \/ \E folders \in FolderLists : LibraryIdArrives(folders)
    \/ TasksBeforeArrive
    \/ RefreshAccepted
    \/ \E scanTask \in TasksAfterStates : TriggerSettles(scanTask)
    \/ \E e \in { "E401", "E500" } : TriggerRequestFails(e)
    \/ \E scanCompleted \in BOOLEAN : WaitSettles(scanCompleted)
    \/ OtherRequestInitializes
    \/ OtherRequestChecked

Spec == InitPipe /\ [][Next]_vars

\* ------------------------------------------------------ radio pipeline: claims
Replied == pc = "replied"
ErrorKinds(kind) ==
    { k \in 1..Len(results.errors) : results.errors[k].kind = kind }

\* C1 as stated: once the playlist has been created every reply is the result
\* object with its counters (status 200), whatever failed in Phases 1 to 5.
C1_NoTopLevelErrorAfterCreate ==
    (Replied /\ results.playlistId # 0) =>
        /\ response.status = 200
        /\ response.body = "result"

\* C2 as stated: a run whose scan wait timed out replies with the result,
\* holds exactly one scan-timeout entry in errors, and has searched again for
\* every suggestion it downloaded.
C2_Phase5RunsAfterTimeout ==
    (Replied /\ ErrorKinds("scanTimeout") # { }) =>
        /\ response.status = 200
        /\ Cardinality(ErrorKinds("scanTimeout")) = 1
        /\ \A i \in 1..Len(sugg) : sugg[i].dl = "ok" => sugg[i].find # "none"

\* The positions in songsToDownload whose download has been started.
StartedPositions ==
    { k \in 1..Len(SongsToDownload(sugg)) :
        sugg[SongsToDownload(sugg)[k]].dl # "none" }
InFlight == { i \in 1..Len(sugg) : sugg[i].dl = "pending" }

\* C6: at most DOWNLOAD_CONCURRENCY downloads are in flight; downloads are
\* started for unmatched suggestions only, in their order, batch by batch:
\* those in flight lie in the current batch of at most K consecutive
\* positions, every earlier position has settled and no later one has started.
C6_BoundedDownloads ==
    LET k == DownloadConcurrency.value
        todo == SongsToDownload(sugg)
    IN  LessThan(Number(0), DownloadConcurrency) =>
        /\ Cardinality(InFlight) <= k
        /\ \A i \in 1..Len(sugg) :
               sugg[i].dl # "none" => sugg[i].search = "null"
        /\ \A p \in 1..Len(todo) :
              /\ sugg[todo[p]].dl = "pending" =>
                    /\ p > batchIndex * k
                    /\ p <= (batchIndex + 1) * k
              /\ (p <= batchIndex * k /\ pc = "phase3") =>
                    sugg[todo[p]].dl \in { "ok", "failed" }
              /\ (p > (batchIndex + 1) * k /\ pc = "phase3") =>
                    sugg[todo[p]].dl = "none"

\* Two downloads in flight under K = 2 while a third suggestion waits.
C6_Witness ==
    /\ pc = "phase3"
    /\ DownloadConcurrency = Number(2)
    /\ Cardinality(InFlight) = 2
    /\ \E i \in 1..Len(sugg) : sugg[i].search = "null" /\ sugg[i].dl = "none"

\* C7: in every state of a run,
\* songsAdded <= songsFound + songsDownloaded <= totalSuggestions.
C7_CounterOrder ==
    /\ results.songsAdded <= results.songsFound + results.songsDownloaded
    /\ results.songsFound + results.songsDownloaded
         <= results.totalSuggestions

\* A result with found and downloaded songs of which fewer were added.
C7_Witness ==
    /\ Replied
    /\ response.status = 200
    /\ results.songsFound >= 1
    /\ results.songsDownloaded >= 1
    /\ results.songsAdded < results.songsFound + results.songsDownloaded

\* C8: no add of Phase 2 starts before every search of Phase 1 has settled;
\* no download starts before every add has settled; Phase 4 starts only when
\* every download has been attempted and has settled; the searches of Phase 5
\* start only after the scan wait; the run replies only when nothing is
\* pending.
C8_PhaseBarrier ==
    LET Some(Test(_)) == \E i \in 1..Len(sugg) : Test(i)
        All(Test(_)) == \A i \in 1..Len(sugg) : Test(i)
    IN  /\ Some(LAMBDA i : sugg[i].add # "none") =>
              All(LAMBDA i : sugg[i].search \notin { "none", "pending" })
        /\ Some(LAMBDA i : sugg[i].dl # "none") =>
              /\ All(LAMBDA i : sugg[i].search \notin { "none", "pending" })
              /\ All(LAMBDA i : sugg[i].add # "pending")
              /\ All(LAMBDA i : sugg[i].search = "found" =>
                                    sugg[i].add # "none")
        /\ pc \in { "phase4", "trigger", "libraryId", "tasksBefore", "refresh",
                   "tasksAfter", "wait", "phase5" } =>
              /\ All(LAMBDA i : sugg[i].dl # "pending")
              /\ All(LAMBDA i : sugg[i].search = "null" =>
                                    sugg[i].dl \in { "ok", "failed" })
        /\ Some(LAMBDA i : sugg[i].find # "none") =>
              /\ pc \in { "phase5", "replied" }
              /\ All(LAMBDA i : sugg[i].dl # "pending")
        /\ pc = "phase1" => All(LAMBDA i : sugg[i].add = "none")
        /\ pc = "phase2" => All(LAMBDA i : sugg[i].dl = "none")
        /\ Replied =>
              All(LAMBDA i : /\ sugg[i].search # "pending"
                             /\ sugg[i].add # "pending"
                             /\ sugg[i].dl # "pending"
                             /\ sugg[i].find # "pending")

\* Phase 3 is running after an add of Phase 2 failed.
C8_Witness ==
    /\ pc = "phase3"
    /\ \E i \in 1..Len(sugg) : sugg[i].add = "failed"
    /\ \E i \in 1..Len(sugg) : sugg[i].dl = "pending"


\* C11: when a run has replied, exactly one re-index request was sent if
\* Phase 3 had at least one successful download, and none otherwise.
SuccessfulDownloads == { i \in 1..Len(sugg) : sugg[i].dl = "ok" }
C11_TriggerOncePerRun ==
    Replied =>
        Len(trigger.refreshes) = IF SuccessfulDownloads # {} THEN 1 ELSE 0


\* C12: when a run has replied with its result, every suggestion whose
\* Phase 1 search call threw has an entry in errors reporting the search
\* failure.
C12_SearchFailureRecorded ==
    (Replied /\ response.status = 200) =>
        \A i \in 1..Len(sugg) :
            sugg[i].query = "throws" =>
                \E k \in ErrorKinds("search") : results.errors[k].idx = i


\* C13: unless the download directory is configured and the yt-dlp check
\* succeeded, no download is ever started, no scan is triggered and
\* songsDownloaded stays 0; and the result of such a run has exactly one
\* "cannot download" entry for each suggestion the search did not match.
CannotDownloadEntries ==
    { results.errors[k].idx : k \in ErrorKinds("cannot") }
Unmatched ==
    { SongsToDownload(sugg)[k] : k \in 1..Len(SongsToDownload(sugg)) }
C13_Phase3Skipped ==
    ~(env.downloadDir /\ ytDlpAvailable) =>
        /\ \A i \in 1..Len(sugg) : sugg[i].dl = "none" /\ sugg[i].find = "none"
        /\ results.songsDownloaded = 0
        /\ trigger = NoTrigger
        /\ pc \notin { "phase3", "phase4", "trigger", "libraryId",
                       "tasksBefore", "refresh", "tasksAfter", "wait",
                       "phase5" }
        /\ (Replied /\ response.status = 200) =>
              /\ CannotDownloadEntries = Unmatched
              /\ Cardinality(ErrorKinds("cannot")) = Cardinality(Unmatched)
C13_Witness ==
    /\ Replied
    /\ response.status = 200
    /\ env.downloadDir
    /\ ~ytDlpAvailable
    /\ Cardinality(Unmatched) >= 2
    /\ Cardinality(ErrorKinds("cannot")) = Cardinality(Unmatched)
    /\ \E i \in 1..Len(sugg) : sugg[i].search = "found"


\* C14: until the playlist is created no search, add, download or scan is
\* started; a run that replies without having created it replies with an
\* error body and no counters; and a playlist is created only after the
\* run's own session token was accepted.
Untouched ==
    /\ \A i \in 1..Len(sugg) : sugg[i] = NewSuggestion
    /\ trigger = NoTrigger
    /\ results = NoResults
C14_SetupFailureAborts ==
    /\ pc \in { "start", "session", "suggest", "create" } => Untouched
    /\ (Replied /\ results.playlistId = 0) =>
          /\ response.body = "error"
          /\ response.status \in { 400, 401, 500 }
          /\ Untouched
    /\ results.playlistId # 0 => session = UserToken


\* C15: a payload that is missing, is a JSON value other than a list, or is
\* no JSON and has no bracketed JSON array inside, gives an empty suggestion
\* list; the run goes on to create the playlist, and its result has
\* totalSuggestions = 0, all counters 0 and no errors.
MissingShapes == { "noCredentials", "sendFails", "noContent" }
UnparsableShapes == { "notJson", "wrappedBroken", "wrappedList" }
NonListShapes == { "object" }
EmptyResult ==
    /\ Len(sugg) = 0
    /\ (Replied /\ response.status = 200) =>
          results = [NoResults EXCEPT !.playlistId = results.playlistId]
    /\ (Replied /\ response.status # 200) => results.playlistId = 0
Matched == { i \in 1..Len(sugg) : sugg[i].search = "found" }
ScanCompleted == \E i \in 1..Len(sugg) : sugg[i].find # "none"
C16_EndToEndCounts ==
    ( /\ Replied
      /\ response.status = 200
      /\ \A i \in 1..Len(sugg) :
            sugg[i].search # "error" /\ sugg[i].add # "failed"
      /\ ScanCompleted )
    =>  /\ results.songsFound = Cardinality(Matched)
        /\ results.songsDownloaded = Cardinality(SuccessfulDownloads)
        /\ results.songsAdded =
              Cardinality(Matched) + Cardinality(SuccessfulDownloads)
        /\ Len(results.errors) =
              Len(sugg) - Cardinality(Matched)
                        - Cardinality(SuccessfulDownloads)
        /\ \A k \in 1..Len(results.errors) :
              results.errors[k].kind = "download"


\* ------------------------------------------ session guard: claims, continued
\* C17: in every reachable state each session guard has at most one
\* credential exchange in flight, and it is the one its pending handle
\* names; without a handle nothing is in flight.
HandleOf(guard) == IF guard = "admin" THEN authPromise ELSE refreshPromise
BusyFlagOf(guard) == IF guard = "admin" THEN isAuthenticating ELSE isRefreshing
C17_OneExchangeInFlight ==
    \A g \in Guards :
        /\ Cardinality(PendingOf(g)) <= 1
        /\ PendingOf(g) = IF HandleOf(g) # 0 THEN { HandleOf(g) } ELSE {}
        /\ BusyFlagOf(g) = (HandleOf(g) # 0)

\* An admin token was obtained and invalidated again, and both callers wait
\* on the one exchange that replaces it.
C17_Witness ==
    \E j \in PendingOf("admin") :
        /\ \E i \in 1..(j - 1) : exch[i].guard = "admin" /\ exch[i].st = "ok"
        /\ \A p \in Callers : call[p].waits = j

\* C18: a failed exchange leaves nothing behind: no handle names it, it
\* carries no token and the cached admin token is never its product, no
\* caller waits on it, and every caller that waited on it received the
\* error (0) from it.
FailedExchanges == { i \in 1..Len(exch) : exch[i].st = "failed" }
C18_FailedExchangeCleared ==
    LET failed == FailedExchanges
    IN
    /\ \A g \in Guards : HandleOf(g) \notin failed
    /\ \A i \in failed : exch[i].tok = 0
    /\ adminToken # 0 =>
          \E i \in 1..Len(exch) :
              /\ exch[i].guard = "admin"
              /\ exch[i].st = "ok"
              /\ exch[i].tok = adminToken
    /\ \A p \in Callers :
          /\ call[p].waits \notin failed
          /\ \A k \in 1..Len(call[p].got) :
                call[p].got[k][1] \in failed => call[p].got[k][2] = 0

\* A caller received the error of a failed exchange and is done; another
\* caller then started a new exchange of the same guard.
C18_Witness ==
    \E i \in FailedExchanges : \E j \in (i + 1)..Len(exch) :
        \E p, q \in Callers :
            /\ p # q
            /\ exch[j].guard = exch[i].guard
            /\ call[p].pc = "done"
            /\ \E k \in 1..Len(call[p].got) : call[p].got[k] = << i, 0 >>
            /\ call[q].got = << >>
            /\ call[q].waits = j


\* ------------------------------------------ radio pipeline: claims, continued
\* C19: while a run is being served, the client it calls the server with
\* holds the token of that run (the user's, or the admin token the run
\* obtained) and the user id of that run, never another request's.
C19_SessionPerRun ==
    pc \notin { "start", "replied" } =>
        /\ accessToken \in { UserToken, adminToken }
        /\ userId \in { "", CurrentUserOf(UserToken) }

\* C20: every re-index request of the scan trigger names one collection, the
\* first collection of type music in the server's list; when the list has no
\* music collection no request is sent and the run records the failed
\* trigger; and the trigger hands back the id once the request and the two
\* task listings are answered, whatever state the scan task is in.
RefreshTargets ==
    { trigger.refreshes[k] : k \in 1..Len(trigger.refreshes) }
MaxItems == 2

ServerStatuses == { 200, 401, 403, 500 }
ErrorOfStatus(status) ==
    CASE status = 401 -> "E401"
      [] status = 403 -> "E403"
      [] OTHER -> "E500"

\* getPlaylists stands for the methods that send one request and let its
\* error escape; addItemsToPlaylist has its own attempts.
ClientOps == { "getPlaylists", "addItemsToPlaylist" }
FirstStep(op) == IF op = "addItemsToPlaylist" THEN "sdk" ELSE "plain"

\* apiCallAttempts, in order
NextAttempt(step) ==
    CASE step = "sdk" -> "ids"
      [] step = "ids" -> "entryIds"
      [] step = "entryIds" -> "idN"
      [] OTHER -> "none"

InitClient ==
    /\ browser \in
         { [ window |-> w, creds |-> c, cookie |-> "old", store |-> "in",
             location |-> "app", token |-> "old" ] :
             w \in BOOLEAN, c \in { "none", "valid", "invalid" } }
    /\ ~browser.window => browser.creds = "none"
    /\ apiCall = NewApiCall
    /\ GuardIdle
    /\ PollIdle
    /\ PipeIdle
    /\ DownloadIdle
    /\ MatchIdle
    /\ NestedIdle

\* operation() is invoked (again).
OperationStarts(c) ==
    [c EXCEPT !.pc = "request", !.step = FirstStep(c.op), !.item = 1,
              !.opCalls = @ + 1]

\* AuthClient.getStoredCredentials() !== null
HasStoredCredentials == browser.window /\ browser.creds # "none"

\* this.isAuthError(error)
ClassifiedAsAuth(err) == err \in AuthErrorIds

\* The catch block of withTokenRefresh up to its next await: a failure of
\* the retry or a non-auth error is rethrown; an auth error starts a refresh,
\* which throws at once when there are no stored credentials.
Catch(c, err) ==
    IF c.opCalls > 1 \/ ~ClassifiedAsAuth(err)
      THEN [c EXCEPT !.pc = "done", !.thrown = err]
      ELSE IF ~HasStoredCredentials
             THEN [c EXCEPT !.pc = "done", !.thrown = "ENoStoredCreds",
                            !.refreshes = @ + 1, !.refreshed = "noCreds"]
             ELSE [c EXCEPT !.pc = "refresh", !.refreshes = @ + 1]

\* A method of the client is called.
ClientCall(op, n) ==
    /\ apiCall.pc = "idle"
    /\ browser.token # "none"
    /\ apiCall' = OperationStarts(
                      [NewApiCall EXCEPT !.op = op,
                          !.items = IF op = "addItemsToPlaylist" THEN n ELSE 0])
    /\ UNCHANGED browser
    /\ UNCHANGED << guardVars, pollVars, pipeVars, downloadVars, matchVars,
                    nestedVars >>

\* The server answers the request in flight.
RequestSettles(status) ==
    /\ apiCall.pc = "request"
    /\ LET c == [apiCall EXCEPT
                   !.met = IF apiCall.opCalls = 1 THEN @ \cup { status } ELSE @]
       IN  apiCall' =
             CASE c.step = "plain" ->
                    IF status = 200
                      THEN [c EXCEPT !.pc = "done", !.thrown = "ok"]
                      ELSE Catch(c, ErrorOfStatus(status))
               [] c.step = "sdk" ->
                    IF status = 200
                      THEN IF c.item < c.items
                             THEN [c EXCEPT !.item = @ + 1]
                             ELSE [c EXCEPT !.pc = "done", !.thrown = "ok"]
                      ELSE [c EXCEPT !.step = NextAttempt(c.step)]
               [] OTHER ->
                    IF status = 200
                      THEN [c EXCEPT !.pc = "done", !.thrown = "ok"]
                      ELSE IF NextAttempt(c.step) # "none"
                             THEN [c EXCEPT !.step = NextAttempt(c.step)]
                             ELSE Catch(c, "EAllAttemptsFailed")
    /\ UNCHANGED browser
    /\ UNCHANGED << guardVars, pollVars, pipeVars, downloadVars, matchVars,
                    nestedVars >>

\* useAuthStore.getState().logout() and window.location.href = "/auth"
Logout(b) ==
    [b EXCEPT !.cookie = "deleted", !.store = "out", !.location = "/auth"]

\* jellyfinClient.authenticate(credentials) settles inside
\* performTokenRefresh: the new token goes to the cookie, the client and the
\* store and operation() is retried; or the user is logged out and the
\* refresh error is thrown.
RefreshSettles(ok) ==
    /\ apiCall.pc = "refresh"
    /\ ok => browser.creds = "valid"
    /\ IF ok
         THEN /\ browser' = [browser EXCEPT !.cookie = "new", !.token = "new",
                                            !.store = "in"]
              /\ apiCall' = OperationStarts([apiCall EXCEPT !.refreshed = "ok"])
         ELSE /\ browser' = IF browser.window THEN Logout(browser) ELSE browser
              /\ apiCall' = [apiCall EXCEPT !.pc = "done",
                                            !.refreshed = "failed",
                                            !.thrown = "ERefreshFailed"]
    /\ UNCHANGED << guardVars, pollVars, pipeVars, downloadVars, matchVars,
                    nestedVars >>

ClientNext ==
    \/ \E op \in ClientOps, n \in 1..MaxItems : ClientCall(op, n)
    \/ \E status \in ServerStatuses : RequestSettles(status)
    \/ \E ok \in BOOLEAN : RefreshSettles(ok)

SpecClient == InitClient /\ [][ClientNext]_vars

\* ------------------------------------------------- browser client: claims
\* C21: a call whose first invocation was answered 401 or 403 and did not
\* succeed all the same has gone through a token refresh, and after a
\* successful refresh the call was invoked a second time.
RejectedStatuses == { 401, 403 }
C21_RejectedCallRefreshesAndRetries ==
    ( /\ apiCall.pc = "done"
      /\ apiCall.met \cap RejectedStatuses # {}
      /\ ~(apiCall.opCalls = 1 /\ apiCall.thrown = "ok") )
    =>  /\ apiCall.refreshes = 1
        /\ apiCall.refreshed = "ok" => apiCall.opCalls = 2

\* C22: in the browser, when the token refresh has failed, for invalid or
\* for missing credentials, the cookie is deleted, the store is cleared, the
\* page is the login page and the call has thrown.
C22_FailedRefreshLogsOut ==
    (browser.window /\ apiCall.refreshed \in { "failed", "noCreds" })
    =>  /\ browser.cookie = "deleted"
        /\ browser.store = "out"
        /\ browser.location = "/auth"
        /\ apiCall.pc = "done"
        /\ apiCall.thrown \notin { "none", "ok" }


\* ------------------------------------------- POST /api/download (one song)
\* The request awaits admin authentication (getAdminToken succeeded from the
\* cache, by an exchange, or kept failing).
AdminAuthOutcomes == { "cached", "exchanged", "failed" }

\* What getAdminToken throws when it fails.
AdminTokenError == IF cfg.adminCreds THEN "EAdminAuthFailed" ELSE "EAdminCreds"

InitDownload ==
    /\ download = NewDownload
    /\ cfg \in { [adminCreds |-> b, storedCreds |-> FALSE] : b \in BOOLEAN }
    /\ adminToken \in { 0, OtherUserToken + 1 }
    /\ adminToken # 0 => cfg.adminCreds
    /\ tokenExpiry = IF adminToken = 0 THEN 0 ELSE TokenLifetimeHours
    /\ issued = IF adminToken = 0 THEN OtherUserToken ELSE adminToken
    /\ isAuthenticating = FALSE
    /\ authPromise = 0
    /\ isRefreshing = FALSE
    /\ refreshPromise = 0
    /\ accessToken = 0
    /\ userId = ""
    /\ now = 0
    /\ call = [p \in Callers |-> NewCaller]
    /\ exch = << >>
    /\ PollIdle
    /\ PipeIdle
    /\ ClientIdle
    /\ MatchIdle
    /\ NestedIdle

\* return NextResponse.json({ error }, { status })
DownloadReplyError(d, status) ==
    [d EXCEPT !.pc = "replied", !.reply = [status |-> status, success |-> FALSE]]

\* return NextResponse.json({ success: true, ... }): the status is 200 and
\* the four locals are copied into the body.
DownloadReplySuccess(d) ==
    [d EXCEPT !.pc = "replied", !.reply = [status |-> 200, success |-> TRUE]]

\* catch (error) { scanError = error.message }, then the success reply
ScanFailure(d, err) == DownloadReplySuccess([d EXCEPT !.scanError = err])

\* the inner catch: playlistError = error.message, then the success reply
PlaylistFailure(d, err) == DownloadReplySuccess([d EXCEPT !.playlistError = err])

\* The guard variables a download step leaves alone.
DownloadKeepsGuards ==
    UNCHANGED << isAuthenticating, authPromise, isRefreshing, refreshPromise,
                 now, cfg, call, exch >>

\* The first lines of withAdminAuth with the given outcome of getAdminToken:
\* the admin token is cached or issued, and the shared client is pointed at
\* the admin session with an empty user id.
AdminSessionStarts(auth) ==
    /\ IsTokenValid => auth = "cached"
    /\ ~IsTokenValid => auth # "cached"
    /\ (~IsTokenValid /\ ~cfg.adminCreds) => auth = "failed"
    /\ IF auth = "failed"
         THEN /\ adminToken' = 0
              /\ tokenExpiry' = 0
              /\ UNCHANGED << accessToken, userId, issued >>
         ELSE /\ adminToken' = IF auth = "cached" THEN adminToken
                                                  ELSE issued + 1
              /\ tokenExpiry' = IF auth = "cached" THEN tokenExpiry
                                                   ELSE now + TokenLifetimeHours
              /\ issued' = IF auth = "cached" THEN issued ELSE issued + 1
              /\ accessToken' =
                   InitializeFromStorage(adminToken', "").accessToken
              /\ userId' = InitializeFromStorage(adminToken', "").userId

\* The body is read and checked, and MUSIC_DOWNLOAD_DIR is looked up.
DownloadReceive(fields, dir, playlist) ==
    /\ download.pc = "start"
    /\ download' =
         IF ~fields THEN DownloadReplyError(download, 400)
         ELSE IF ~dir THEN DownloadReplyError(download, 500)
         ELSE [download EXCEPT !.pc = "verify", !.playlistId = playlist]
    /\ UNCHANGED << guardVars, pollVars, pipeVars, clientVars, matchVars,
                    nestedVars >>

\* verifyYtDlp settles; downloadSong starts when the tool works.
DownloadYtDlpVerified(available) ==
    /\ download.pc = "verify"
    /\ download' = IF available
                     THEN [download EXCEPT !.pc = "downloading"]
                     ELSE DownloadReplyError(download, 500)
    /\ UNCHANGED << guardVars, pollVars, pipeVars, clientVars, matchVars,
                    nestedVars >>

\* downloadSong settles.  After a success the four locals are set and
\* withAdminAuth is entered for the scan trigger.
DownloadSongSettles(ok) ==
    /\ download.pc = "downloading"
    /\ download' = IF ok
                     THEN [download EXCEPT !.pc = "adminAuth",
                                           !.downloaded = TRUE]
                     ELSE DownloadReplyError(download, 500)
    /\ UNCHANGED << guardVars, pollVars, pipeVars, clientVars, matchVars,
                    nestedVars >>

\* withAdminAuth around triggerMusicLibraryScan: the token is obtained and
\* triggerMusicLibraryScan is called, which suspends before its body runs.
\* A failed admin authentication reaches the outer catch.
DownloadTriggerBegins(auth) ==
    /\ download.pc = "adminAuth"
    /\ AdminSessionStarts(auth)
    /\ download' = IF auth = "failed"
                     THEN ScanFailure(download, AdminTokenError)
                     ELSE [download EXCEPT !.pc = "trigger"]
    /\ DownloadKeepsGuards
    /\ UNCHANGED << pollVars, pipeVars, clientVars, matchVars,
                    nestedVars >>

\* The body of triggerMusicLibraryScan runs: getMusicLibraryId throws
\* "Not authenticated" unless the client has a user id; no guard classifies
\* that as an auth error, so it reaches the outer catch.
DownloadTriggerRuns ==
    /\ download.pc = "trigger"
    /\ download' =
         IF HasUserId([accessToken |-> accessToken, userId |-> userId])
           THEN [download EXCEPT !.pc = "libraryId"]
           ELSE ScanFailure(download, "ENotAuthenticated")
    /\ UNCHANGED << guardVars, pollVars, pipeVars, clientVars, matchVars,
                    nestedVars >>

\* if (playlistId && scanTriggered): the wait starts under withAdminAuth,
\* otherwise the reply is sent.
AfterTrigger(d) ==
    IF d.playlistId /\ d.scanTriggered
      THEN [d EXCEPT !.pc = "waitAuth"]
      ELSE DownloadReplySuccess(d)

\* getMusicLibraryId resolves: without a music library the trigger returns
\* null (scanTriggered stays false); with one the three further requests of
\* triggerMusicLibraryScan follow.
DownloadLibraryIdArrives(folders) ==
    /\ download.pc = "libraryId"
    /\ download' =
         IF MusicLibraryOf(folders) = 0
           THEN AfterTrigger([download EXCEPT !.triggerResult = "null"])
           ELSE [download EXCEPT !.pc = "tasksBefore"]
    /\ UNCHANGED << guardVars, pollVars, pipeVars, clientVars, matchVars,
                    nestedVars >>

\* tasksBefore, the refresh request and tasksAfter are answered in turn; the
\* trigger then returns the library's id and scanTriggered becomes true.
DownloadTriggerRequestSettles ==
    /\ download.pc \in { "tasksBefore", "refresh", "tasksAfter" }
    /\ download' =
         CASE download.pc = "tasksBefore" -> [download EXCEPT !.pc = "refresh"]
           [] download.pc = "refresh" -> [download EXCEPT !.pc = "tasksAfter"]
           [] OTHER -> AfterTrigger([download EXCEPT !.triggerResult = "id",
                                                      !.scanTriggered = TRUE])
    /\ UNCHANGED << guardVars, pollVars, pipeVars, clientVars, matchVars,
                    nestedVars >>

\* One of the four requests of the trigger fails.  On an auth error of the
\* first attempt withAdminAuth drops the admin token and starts over;
\* otherwise the error reaches the outer catch.
DownloadTriggerRequestFails(e) ==
    /\ download.pc \in { "libraryId", "tasksBefore", "refresh", "tasksAfter" }
    /\ IF AdminRetries(ServerSideFailure(e)) /\ ~download.retried
         THEN /\ adminToken' = 0
              /\ tokenExpiry' = 0
              /\ download' = [download EXCEPT !.pc = "adminAuth",
                                              !.retried = TRUE]
         ELSE /\ download' = ScanFailure(download, ServerSideFailure(e))
              /\ UNCHANGED << adminToken, tokenExpiry >>
    /\ UNCHANGED << accessToken, userId, issued >>
    /\ DownloadKeepsGuards
    /\ UNCHANGED << pollVars, pipeVars, clientVars, matchVars,
                    nestedVars >>

\* withAdminAuth around waitForLibraryScanCompletion(120000, 3000).
DownloadWaitBegins(auth) ==
    /\ download.pc = "waitAuth"
    /\ AdminSessionStarts(auth)
    /\ download' = IF auth = "failed"
                     THEN ScanFailure(download, AdminTokenError)
                     ELSE [download EXCEPT !.pc = "wait"]
    /\ DownloadKeepsGuards
    /\ UNCHANGED << pollVars, pipeVars, clientVars, matchVars,
                    nestedVars >>

\* The wait returns true or false (errors of its requests stay inside it);
\* either way the handler sleeps 30 seconds.
DownloadWaitSettles(scanCompleted) ==
    /\ download.pc = "wait"
    /\ download' = [download EXCEPT !.pc = "sleep",
                                    !.scanCompleted =
                                       IF scanCompleted THEN "yes" ELSE "no"]
    /\ UNCHANGED << guardVars, pollVars, pipeVars, clientVars, matchVars,
                    nestedVars >>

\* The sleep ends and withAdminAuth is entered for findSongInLibrary.
DownloadSleepEnds ==
    /\ download.pc = "sleep"
    /\ download' = [download EXCEPT !.pc = "findAuth"]
    /\ UNCHANGED << guardVars, pollVars, pipeVars, clientVars, matchVars,
                    nestedVars >>

\* withAdminAuth around findSongInLibrary: the client's user id is emptied
\* and findSongInLibrary tests it in the same step, so the search throws
\* "Not authenticated" before any request; the inner catch records it.
DownloadFindRuns(auth) ==
    /\ download.pc = "findAuth"
    /\ AdminSessionStarts(auth)
    /\ download' =
         IF auth = "failed"
           THEN PlaylistFailure(download, AdminTokenError)
         ELSE IF HasUserId(InitializeFromStorage(adminToken', ""))
           THEN [download EXCEPT !.pc = "search"]
           ELSE PlaylistFailure([download EXCEPT !.searched = TRUE],
                                "ENotAuthenticated")
    /\ DownloadKeepsGuards
    /\ UNCHANGED << pollVars, pipeVars, clientVars, matchVars,
                    nestedVars >>

\* Another request of the same process initializes the shared client with
\* its own user's token and then stores that user's id in it.
DownloadOtherRequest ==
    /\ download.pc \notin { "start", "replied" }
    /\ download.other # "checked"
    /\ download' = [download EXCEPT
                      !.other = IF @ = "none" THEN "initialized" ELSE "checked"]
    /\ IF download.other = "none"
         THEN /\ accessToken' =
                   InitializeFromStorage(OtherUserToken, "").accessToken
              /\ userId' = InitializeFromStorage(OtherUserToken, "").userId
         ELSE /\ userId' = CurrentUserOf(accessToken)
              /\ UNCHANGED accessToken
    /\ UNCHANGED << adminToken, tokenExpiry, issued >>
    /\ DownloadKeepsGuards
    /\ UNCHANGED << pollVars, pipeVars, clientVars, matchVars,
                    nestedVars >>

\* The admin token's 23 hours run out while the request is under way.
DownloadTokenExpires ==
    /\ download.pc \notin { "start", "replied" }
    /\ IsTokenValid
    /\ tokenExpiry <= MaxNow
    /\ now' = tokenExpiry
    /\ UNCHANGED << adminToken, tokenExpiry, isAuthenticating, authPromise,
                    isRefreshing, refreshPromise, accessToken, userId, issued,
                    cfg, call, exch >>
    /\ UNCHANGED << download, pollVars, pipeVars, clientVars, matchVars,
                    nestedVars >>

DownloadNext ==
    \/ \E fields, dir, playlist \in BOOLEAN :
          DownloadReceive(fields, dir, playlist)
    \/ \E available \in BOOLEAN : DownloadYtDlpVerified(available)
    \/ \E ok \in BOOLEAN : DownloadSongSettles(ok)
    \/ \E auth \in AdminAuthOutcomes : DownloadTriggerBegins(auth)
    \/ DownloadTriggerRuns
    \/ \E folders \in FolderLists : DownloadLibraryIdArrives(folders)
    \/ DownloadTriggerRequestSettles
    \/ \E e \in { "E401", "E500" } : DownloadTriggerRequestFails(e)
    \/ \E auth \in AdminAuthOutcomes : DownloadWaitBegins(auth)
    \/ \E scanCompleted \in BOOLEAN : DownloadWaitSettles(scanCompleted)
    \/ DownloadSleepEnds
    \/ \E auth \in AdminAuthOutcomes : DownloadFindRuns(auth)
    \/ DownloadOtherRequest
    \/ DownloadTokenExpires

SpecDownload == InitDownload /\ [][DownloadNext]_vars


\* ------------------------------------------------ single-song download: claims
\* A failure after the download that is not an exception: the trigger
\* returned null, or the wait timed out.
QuietFailure ==
    \/ download.triggerResult = "null"
    \/ download.scanCompleted = "no"
Reported == download.scanError # "none" \/ download.playlistError # "none"

\* C23: once the download has succeeded the reply is a success, and every
\* later failure (the trigger throwing or returning null, the scan timing
\* out, the song not found, the add failing) is reported in libraryScanError
\* or playlistError.
C23_LateFailureReported ==
    (download.pc = "replied" /\ download.downloaded)
    => /\ download.reply = [status |-> 200, success |-> TRUE]
       /\ QuietFailure => Reported


\* ------------------------------------------- search matching (pure functions)
\* The longest text normalizeText is applied to.
MaxTextLen == 4
\* The longest text of a pair given to calculateSimilarity and isSimilar.
MaxPairLen == 3
\* The most search results findBestMatch is given.
MaxCandidates == 2

\* \w of a JavaScript regular expression without the u flag, and \s (the
\* whitespace characters that occur in the model's texts).
WordChars ==
    { UpperChars[i] : i \in 1..Len(UpperChars) }
      \cup { LowerChars[i] : i \in 1..Len(LowerChars) }
      \cup { "0", "1", "2", "3", "4", "5", "6", "7", "8", "9", "_" }
SpaceChars == { " ", "\t", "\n", "\r" }

\* .replace(/[^\w\s]/g, '')
RemovePunctuation(s) ==
    SelectSeq(s, LAMBDA c : c \in WordChars \/ c \in SpaceChars)

\* .replace(/\s+/g, ' '): every maximal run of whitespace becomes one space.
NormalizeWhitespace(s) ==
    LET kept == SelectSeq([i \in 1..Len(s) |-> i],
                          LAMBDA i : \/ s[i] \notin SpaceChars
                                     \/ i = 1
                                     \/ s[i - 1] \notin SpaceChars)
    IN  [k \in 1..Len(kept) |->
           IF s[kept[k]] \in SpaceChars THEN " " ELSE s[kept[k]]]

\* String.prototype.trim
Trim(s) ==
    LET solid == { i \in 1..Len(s) : s[i] \notin SpaceChars }
    IN  IF solid = {} THEN << >>
        ELSE SubSeq(s, CHOOSE i \in solid : \A j \in solid : i <= j,
                       CHOOSE i \in solid : \A j \in solid : j <= i)

\* A variant of normalizeText that trims before anything else.
NormalizeTextTrimFirst(text) ==
    NormalizeWhitespace(RemovePunctuation(Trim(ToLowerCase(text))))

\* normalizeText
NormalizeText(text) ==
    Trim(NormalizeWhitespace(RemovePunctuation(ToLowerCase(text))))

CommonWords ==
    { <<"t","h","e">>,
      <<"a">>,
      <<"a","n">>,
      <<"a","n","d">>,
      <<"o","r">>,
      <<"b","u","t">>,
      <<"i","n">>,
      <<"o","n">>,
      <<"a","t">>,
      <<"t","o">>,
      <<"f","o","r">>,
      <<"o","f">>,
      <<"w","i","t","h">>,
      <<"b","y">>,
      <<"f","e","a","t">>,
      <<"f","e","a","t","u","r","i","n","g">>,
      <<"f","t">>,
      <<"v","s">>,
      <<"v","e","r","s","u","s">> }

\* String.prototype.split(' ')
RECURSIVE Split(_)
Split(s) ==
    IF \A i \in 1..Len(s) : s[i] # " "
      THEN << s >>
      ELSE LET i == CHOOSE i \in 1..Len(s) :
                      s[i] = " " /\ \A j \in 1..(i - 1) : s[j] # " "
           IN  << SubSeq(s, 1, i - 1) >> \o Split(SubSeq(s, i + 1, Len(s)))

\* Array.prototype.join(' ')
RECURSIVE Join(_)
Join(words) ==
    IF Len(words) = 0 THEN << >>
    ELSE IF Len(words) = 1 THEN words[1]
    ELSE words[1] \o << " " >> \o Join(Tail(words))

\* removeCommonWords
RemoveCommonWords(text) ==
    Join(SelectSeq(Split(text),
                   LAMBDA word : ToLowerCase(word) \notin CommonWords))

Min3(a, b, c) == Min(a, Min(b, c))

\* The matrix of calculateSimilarity and its last cell, matrix[len2][len1].
Matrix(str1, str2) ==
    LET len1 == Len(str1)
        len2 == Len(str2)
        matrix[j \in 0..len2, i \in 0..len1] ==
            IF j = 0 THEN i
            ELSE IF i = 0 THEN j
            ELSE Min3(matrix[j, i - 1] + 1,
                      matrix[j - 1, i] + 1,
                      matrix[j - 1, i - 1]
                        + (IF str1[i] = str2[j] THEN 0 ELSE 1))
    IN  matrix[len2, len1]

\* A number as a fraction, the denominator positive.
Fraction(n, d) == [num |-> n, den |-> d]
\* r >= tenths / 10 and r > tenths / 10
AtLeast(r, tenths) == 10 * r.num >= tenths * r.den
MoreThan(r, tenths) == 10 * r.num > tenths * r.den

\* calculateSimilarity
CalculateSimilarity(str1, str2) ==
    LET len1 == Len(str1)
        len2 == Len(str2)
        maxLen == IF len1 >= len2 THEN len1 ELSE len2
    IN  IF len1 = 0 THEN Fraction(len2, 1)
        ELSE IF len2 = 0 THEN Fraction(len1, 1)
        ELSE Fraction(maxLen - Matrix(str1, str2), maxLen)

\* A variant of isSimilar without the stage that removes common words.
IsSimilarUncleaned(str1, str2, threshold) ==
    LET normalized1 == NormalizeText(str1)
        normalized2 == NormalizeText(str2)
    IN  IF normalized1 = normalized2 THEN TRUE
        ELSE IF Includes(normalized1, normalized2)
                  \/ Includes(normalized2, normalized1) THEN TRUE
        ELSE AtLeast(CalculateSimilarity(normalized1, normalized2), threshold)

\* isSimilar, the threshold in tenths
IsSimilar(str1, str2, threshold) ==
    LET normalized1 == NormalizeText(str1)
        normalized2 == NormalizeText(str2)
        cleaned1 == RemoveCommonWords(normalized1)
        cleaned2 == RemoveCommonWords(normalized2)
    IN  IF normalized1 = normalized2 THEN TRUE
        ELSE IF Includes(normalized1, normalized2)
                  \/ Includes(normalized2, normalized1) THEN TRUE
        ELSE IF cleaned1 = cleaned2 THEN TRUE
        ELSE IF Includes(cleaned1, cleaned2)
                  \/ Includes(cleaned2, cleaned1) THEN TRUE
        ELSE AtLeast(CalculateSimilarity(cleaned1, cleaned2), threshold)

\* An absent or empty string field is falsy.
Truthy(text) == text # << >>

\* A variant of the score whose title tiers add up.
ScoreBothTitleTiers(suggestion, result) ==
    LET title == (IF IsSimilar(suggestion.title, result.name, 8)
                    THEN 10 ELSE 0)
                 + (IF IsSimilar(suggestion.title, result.name, 6)
                      THEN 5 ELSE 0)
        artist == IF ~Truthy(result.albumArtist) THEN 0
                  ELSE IF IsSimilar(suggestion.artist, result.albumArtist, 8)
                    THEN 8
                  ELSE IF IsSimilar(suggestion.artist, result.albumArtist, 6)
                    THEN 4
                  ELSE 0
        album == IF Truthy(suggestion.album) /\ Truthy(result.album)
                      /\ IsSimilar(suggestion.album, result.album, 8)
                   THEN 3 ELSE 0
    IN  title + artist + album

\* The score findBestMatch gives one result.
Score(suggestion, result) ==
    LET title == IF IsSimilar(suggestion.title, result.name, 8) THEN 10
                 ELSE IF IsSimilar(suggestion.title, result.name, 6) THEN 5
                 ELSE 0
        artist == IF ~Truthy(result.albumArtist) THEN 0
                  ELSE IF IsSimilar(suggestion.artist, result.albumArtist, 8)
                    THEN 8
                  ELSE IF IsSimilar(suggestion.artist, result.albumArtist, 6)
                    THEN 4
                  ELSE 0
        album == IF Truthy(suggestion.album) /\ Truthy(result.album)
                      /\ IsSimilar(suggestion.album, result.album, 8)
                   THEN 3 ELSE 0
        titleSimilarity ==
            CalculateSimilarity(NormalizeText(suggestion.title),
                                NormalizeText(result.name))
        artistSimilarity ==
            IF Truthy(result.albumArtist)
              THEN CalculateSimilarity(NormalizeText(suggestion.artist),
                                       NormalizeText(result.albumArtist))
              ELSE Fraction(0, 1)
        both == IF MoreThan(titleSimilarity, 5) /\ MoreThan(artistSimilarity, 5)
                  THEN 5 ELSE 0
    IN  title + artist + album + both

\* The texts of the model's suggestions and search results.
TitleHello == <<"H","e","l","l","o">>
NameHelloBang == <<"h","e","l","l","o","!">>
NameHelloUpper == <<"H","E","L","L","O">>
NameHelps == <<"H","e","l","p","s">>
NameOther == <<"Z","z","z">>
ArtistAdele == <<"A","d","e","l","e">>
ArtistAdexy == <<"A","d","e","x","y">>
Absent == << >>

Suggestions ==
    { [title |-> TitleHello, artist |-> ArtistAdele, album |-> a] :
        a \in { Absent, TitleHello } }
ResultPool ==
    { [type |-> t, name |-> n, albumArtist |-> aa, album |-> al] :
        t \in { "Audio", "MusicAlbum" },
        n \in { NameHelloBang, NameHelloUpper, NameHelps, NameOther },
        aa \in { Absent, ArtistAdexy, ArtistAdele },
        al \in { Absent, TitleHello } }

\* The scores of the model's results, computed once.
ScoreOf == [s \in Suggestions |-> [r \in ResultPool |-> Score(s, r)]]

\* for (const result of audioResults) { ... if (score > bestScore) ... },
\* the results named by their positions in searchResults.
RECURSIVE BestOf(_, _, _, _, _)
BestOf(suggestion, searchResults, audioResults, bestMatch, bestScore) ==
    IF Len(audioResults) = 0
      THEN [bestMatch |-> bestMatch, bestScore |-> bestScore]
      ELSE LET result == Head(audioResults)
               score == ScoreOf[suggestion][searchResults[result]]
           IN  IF score > bestScore
                 THEN BestOf(suggestion, searchResults, Tail(audioResults),
                             result, score)
                 ELSE BestOf(suggestion, searchResults, Tail(audioResults),
                             bestMatch, bestScore)

\* A variant of the loop that takes a later result of equal score.
RECURSIVE BestOfLast(_, _, _, _, _)
BestOfLast(suggestion, searchResults, audioResults, bestMatch, bestScore) ==
    IF Len(audioResults) = 0
      THEN [bestMatch |-> bestMatch, bestScore |-> bestScore]
      ELSE LET result == Head(audioResults)
               score == ScoreOf[suggestion][searchResults[result]]
           IN  IF score >= bestScore
                 THEN BestOfLast(suggestion, searchResults,
                                 Tail(audioResults), result, score)
                 ELSE BestOfLast(suggestion, searchResults,
                                 Tail(audioResults), bestMatch, bestScore)

\* searchResults.filter(result => result.type === "Audio"), as positions
AudioResults(searchResults) ==
    SelectSeq([i \in 1..Len(searchResults) |-> i],
              LAMBDA i : searchResults[i].type = "Audio")

\* A variant of findBestMatch whose loop takes a later result of equal score.
FindBestMatchLast(suggestion, searchResults) ==
    LET best == BestOfLast(suggestion, searchResults,
                           AudioResults(searchResults), 0, 0)
    IN  IF best.bestScore >= 5 THEN best.bestMatch ELSE 0

\* findBestMatch: the position of the result returned, 0 for null.
FindBestMatch(suggestion, searchResults) ==
    LET audioResults == AudioResults(searchResults)
        best == BestOf(suggestion, searchResults, audioResults, 0, 0)
    IN  IF Len(audioResults) = 0 THEN 0
        ELSE IF best.bestScore >= 5 THEN best.bestMatch ELSE 0

\* `${a} ${b}`
Spaced(a, b) == a \o << " " >> \o b

\* queries.filter((query, index, self) => self.indexOf(query) === index)
RemoveDuplicates(list) ==
    LET kept == SelectSeq([i \in 1..Len(list) |-> i],
                          LAMBDA i : \A j \in 1..(i - 1) :
                                        list[j] # list[i])
    IN  [k \in 1..Len(kept) |-> list[kept[k]]]

\* The queries generateSearchQueries pushes, before the duplicates go.
PushedQueries(suggestion) ==
    LET cleanTitle == RemoveCommonWords(suggestion.title)
        cleanArtist == RemoveCommonWords(suggestion.artist)
    IN  << Spaced(suggestion.title, suggestion.artist),
           suggestion.title,
           suggestion.artist >>
          \o (IF Truthy(suggestion.album)
                THEN << Spaced(suggestion.title, suggestion.album) >>
                ELSE << >>)
          \o (IF cleanTitle # suggestion.title
                   \/ cleanArtist # suggestion.artist
                THEN << Spaced(cleanTitle, cleanArtist) >>
                ELSE << >>)

\* A variant of generateSearchQueries that keeps the duplicates.
GenerateSearchQueriesUnfiltered(suggestion) == PushedQueries(suggestion)

\* generateSearchQueries
GenerateSearchQueries(suggestion) ==
    RemoveDuplicates(PushedQueries(suggestion))

\* The inputs of the model.
TextChars == { "A", "n", "1", ".", " ", "\t" }
Texts == UNION { [1..n -> TextChars] : n \in 0..MaxTextLen }
PairChars == { "a", "n", " " }
PairTexts == UNION { [1..n -> PairChars] : n \in 0..MaxPairLen }
TheBeatles == <<"T","h","e"," ","B","e","a","t","l","e","s">>
Beatles == <<"B","e","a","t","l","e","s">>
Thresholds == { 6, 7, 8 }
SimilarPairs ==
    (PairTexts \X PairTexts) \cup { << TheBeatles, Beatles >> }
ResultLists == UNION { [1..n -> ResultPool] : n \in 0..MaxCandidates }

MatchFns ==
    { "normalizeText", "calculateSimilarity", "isSimilar", "findBestMatch",
      "score", "generateSearchQueries", "findSongInLibrary" }

\* The suggestions generateSearchQueries is applied to, and the albums they
\* may name.
Albums == { Absent, << "n" >>, << "a", "n" >> }
QuerySuggestions ==
    { [title |-> t, artist |-> a, album |-> al] :
        t \in PairTexts, a \in PairTexts, al \in Albums }

\* What searchItems may give findSongInLibrary for one query: a list of
\* results or an error.
ExactResult ==
    [type |-> "Audio", name |-> NameHelloUpper, albumArtist |-> ArtistAdele,
     album |-> Absent]
\* A result whose name normalizes to the empty string.
PunctuationResult ==
    [type |-> "Audio", name |-> << "!" >>, albumArtist |-> ArtistAdele,
     album |-> Absent]
UnrelatedResult ==
    [type |-> "Audio", name |-> NameOther, albumArtist |-> Absent,
     album |-> Absent]
SearchAnswers ==
    { [status |-> "ok", results |-> l] :
        l \in { << >>, << UnrelatedResult >>,
                << UnrelatedResult, ExactResult >> } }
      \cup { [status |-> "throws", results |-> << >>] }
PendingAnswer == [status |-> "pending", results |-> << >>]

\* What findSongInLibrary gives its caller.
Thrown == [kind |-> "throws", result |-> << >>]
Null == [kind |-> "null", result |-> << >>]
Song(result) == [kind |-> "song", result |-> << result >>]

\* The calls of one function: its name and its arguments.
MatchInputs(fn) ==
    CASE fn = "normalizeText" ->
           { [fn |-> fn, text |-> t] : t \in Texts }
      [] fn = "calculateSimilarity" ->
           { [fn |-> fn, str1 |-> p[1], str2 |-> p[2]] :
               p \in PairTexts \X PairTexts }
      [] fn = "isSimilar" ->
           { [fn |-> fn, str1 |-> p[1], str2 |-> p[2], threshold |-> t] :
               p \in SimilarPairs, t \in Thresholds }
      [] fn = "findBestMatch" ->
           { [fn |-> fn, suggestion |-> s, searchResults |-> l] :
               s \in Suggestions, l \in ResultLists }
      [] fn = "score" ->
           { [fn |-> fn, suggestion |-> s, result |-> r] :
               s \in Suggestions,
               r \in ResultPool \cup { PunctuationResult } }
      [] fn = "generateSearchQueries" ->
           { [fn |-> fn, suggestion |-> s] : s \in QuerySuggestions }
      [] fn = "findSongInLibrary" ->
           { [fn |-> fn, title |-> s.title, artist |-> s.artist,
              userId |-> u] : s \in Suggestions, u \in BOOLEAN }

InitMatch ==
    /\ \E fn \in MatchFns : \E input \in MatchInputs(fn) :
          match = [pc |-> "called", input |-> input, searches |-> << >>,
                   output |-> "none"]
    /\ GuardIdle
    /\ PollIdle
    /\ PipeIdle
    /\ ClientIdle
    /\ DownloadIdle
    /\ NestedIdle

Returns(value) ==
    /\ match' = [match EXCEPT !.pc = "returned", !.output = value]
    /\ UNCHANGED << guardVars, pollVars, pipeVars, clientVars, downloadVars,
                    nestedVars >>

NormalizeTextReturns ==
    /\ match.pc = "called"
    /\ match.input.fn = "normalizeText"
    /\ Returns(NormalizeText(match.input.text))

CalculateSimilarityReturns ==
    /\ match.pc = "called"
    /\ match.input.fn = "calculateSimilarity"
    /\ Returns(CalculateSimilarity(match.input.str1, match.input.str2))

IsSimilarReturns ==
    /\ match.pc = "called"
    /\ match.input.fn = "isSimilar"
    /\ Returns(IsSimilar(match.input.str1, match.input.str2,
                         match.input.threshold))

FindBestMatchReturns ==
    /\ match.pc = "called"
    /\ match.input.fn = "findBestMatch"
    /\ Returns(FindBestMatch(match.input.suggestion,
                             match.input.searchResults))

\* The body of the loop of findBestMatch applied to one result.
ScoreReturns ==
    /\ match.pc = "called"
    /\ match.input.fn = "score"
    /\ Returns(Score(match.input.suggestion, match.input.result))

GenerateSearchQueriesReturns ==
    /\ match.pc = "called"
    /\ match.input.fn = "generateSearchQueries"
    /\ Returns(GenerateSearchQueries(match.input.suggestion))

\* The suggestion findSongInLibrary builds (no album) and its queries.
SuggestionOf(input) ==
    [title |-> input.title, artist |-> input.artist, album |-> Absent]
SearchQueries == GenerateSearchQueries(SuggestionOf(match.input))

\* findSongInLibrary is called: without a user id it throws; otherwise the
\* first query is passed to searchItems.
FindSongInLibraryStarts ==
    /\ match.pc = "called"
    /\ match.input.fn = "findSongInLibrary"
    /\ IF match.input.userId
         THEN /\ match' =
                   [match EXCEPT
                      !.pc = "searching",
                      !.searches = << [query |-> SearchQueries[1],
                                       answer |-> PendingAnswer] >>]
              /\ UNCHANGED << guardVars, pollVars, pipeVars, clientVars,
                              downloadVars, nestedVars >>
         ELSE Returns(Thrown)

\* searchItems settles for the query in flight.  A list is passed to
\* findBestMatch: a match ends the loop and is returned, otherwise the next
\* query is sent or, after the last one, null is returned.  An error is
\* caught outside the loop and null is returned.
SearchItemsSettles(answer) ==
    /\ match.pc = "searching"
    /\ LET k == Len(match.searches)
           searches == [match.searches EXCEPT ![k].answer = answer]
           found == IF answer.status = "throws" THEN 0
                    ELSE FindBestMatch(SuggestionOf(match.input),
                                       answer.results)
       IN  IF answer.status # "throws" /\ found = 0
                /\ k < Len(SearchQueries)
             THEN /\ match' =
                       [match EXCEPT
                          !.searches =
                             Append(searches,
                                    [query |-> SearchQueries[k + 1],
                                     answer |-> PendingAnswer])]
                  /\ UNCHANGED << guardVars, pollVars, pipeVars, clientVars,
                                  downloadVars, nestedVars >>
             ELSE /\ match' =
                       [match EXCEPT
                          !.pc = "returned",
                          !.searches = searches,
                          !.output =
                             IF found = 0 THEN Null
                             ELSE Song(answer.results[found])]
                  /\ UNCHANGED << guardVars, pollVars, pipeVars, clientVars,
                                  downloadVars, nestedVars >>

MatchNext ==
    \/ NormalizeTextReturns
    \/ CalculateSimilarityReturns
    \/ IsSimilarReturns
    \/ FindBestMatchReturns
    \/ ScoreReturns
    \/ GenerateSearchQueriesReturns
    \/ FindSongInLibraryStarts
    \/ \E answer \in SearchAnswers : SearchItemsSettles(answer)

SpecMatch == InitMatch /\ [][MatchNext]_vars


\* ---------------------------------------------------- search matching: claims
Returned(fn) == match.pc = "returned" /\ match.input.fn = fn

\* The positions of the Audio candidates of the call and their scores.
AudioCandidates ==
    { i \in 1..Len(match.input.searchResults) :
        match.input.searchResults[i].type = "Audio" }
ScoreAt(i) == ScoreOf[match.input.suggestion][match.input.searchResults[i]]

\* C24: findBestMatch returns null when no Audio candidate scores at least
\* 5; otherwise it returns an Audio candidate of maximal score, the first
\* one in input order among those of maximal score.
C24_BestMatchIsFirstMaximum ==
    Returned("findBestMatch")
    => IF \A i \in AudioCandidates : ScoreAt(i) < 5
         THEN match.output = 0
         ELSE /\ match.output \in AudioCandidates
              /\ \A j \in AudioCandidates : ScoreAt(j) <= ScoreAt(match.output)
              /\ \A j \in AudioCandidates :
                    j < match.output => ScoreAt(j) < ScoreAt(match.output)
\* Two different Audio candidates share the maximal score and the first is
\* returned.
C24_Witness ==
    /\ Returned("findBestMatch")
    /\ match.output = 1
    /\ \E j \in AudioCandidates :
          /\ j > 1
          /\ ScoreAt(j) = ScoreAt(1)
          /\ match.input.searchResults[j] # match.input.searchResults[1]

\* C25: similarity(a, a) = 1 for every non-empty string a, and
\* similarity("", "") = 1.
C25_SelfSimilarityIsOne ==
    (Returned("calculateSimilarity") /\ match.input.str1 = match.input.str2)
    => match.output.num = match.output.den

\* The Levenshtein distance of two strings, by its recurrence on the strings
\* without their last characters.
RECURSIVE Levenshtein(_, _)
Levenshtein(a, b) ==
    IF Len(a) = 0 THEN Len(b)
    ELSE IF Len(b) = 0 THEN Len(a)
    ELSE LET a1 == SubSeq(a, 1, Len(a) - 1)
             b1 == SubSeq(b, 1, Len(b) - 1)
         IN  Min3(Levenshtein(a1, b) + 1,
                  Levenshtein(a, b1) + 1,
                  Levenshtein(a1, b1)
                    + (IF a[Len(a)] = b[Len(b)] THEN 0 ELSE 1))
Longer(a, b) == IF Len(a) >= Len(b) THEN Len(a) ELSE Len(b)

\* C26: similarity(a, b) lies in [0, 1] and equals one minus the
\* Levenshtein distance of a and b divided by the length of the longer
\* string, also when exactly one of the two strings is empty.
C26_SimilarityIsNormalizedDistance ==
    (Returned("calculateSimilarity")
       /\ Longer(match.input.str1, match.input.str2) > 0)
    => LET a == match.input.str1
           b == match.input.str2
       IN  /\ 0 <= match.output.num
           /\ match.output.num <= match.output.den
           /\ match.output.num * Longer(a, b)
                = (Longer(a, b) - Levenshtein(a, b)) * match.output.den

\* C27: normalizeText(normalizeText(x)) = normalizeText(x) for every text of
\* letters, punctuation and whitespace.
C27_NormalizeIdempotent ==
    Returned("normalizeText") => NormalizeText(match.output) = match.output
\* A text with punctuation, whitespace and an upper-case letter of which
\* something is left.
C27_Witness ==
    /\ Returned("normalizeText")
    /\ match.output # << >>
    /\ \E i, j, k \in 1..Len(match.input.text) :
          /\ match.input.text[i] = "."
          /\ match.input.text[j] \in SpaceChars
          /\ match.input.text[k] = "A"

\* The similarity of two strings as a fraction: one minus the Levenshtein
\* distance over the length of the longer string, 1 for two empty strings.
Similarity(a, b) ==
    IF Longer(a, b) = 0 THEN Fraction(1, 1)
    ELSE Fraction(Longer(a, b) - Levenshtein(a, b), Longer(a, b))
Contains(a, b) == Includes(a, b) \/ Includes(b, a)
\* Equality or containment of the normalized strings or of their forms
\* without stop words.
NearlyEqual(str1, str2) ==
    \/ NormalizeText(str1) = NormalizeText(str2)
    \/ Contains(NormalizeText(str1), NormalizeText(str2))
    \/ RemoveCommonWords(NormalizeText(str1))
         = RemoveCommonWords(NormalizeText(str2))
    \/ Contains(RemoveCommonWords(NormalizeText(str1)),
                RemoveCommonWords(NormalizeText(str2)))

\* C28: isSimilar(a, b, threshold) is true exactly when, after
\* normalization, the strings are equal, or one contains the other, or that
\* holds after the stop words are removed, or the similarity of the forms
\* without stop words is at least the threshold; isSimilar("The Beatles",
\* "Beatles") is true.
C28_IsSimilarStages ==
    Returned("isSimilar")
    => LET str1 == match.input.str1
           str2 == match.input.str2
       IN  /\ match.output
                = IF NearlyEqual(str1, str2) THEN TRUE
                  ELSE AtLeast(Similarity(RemoveCommonWords(NormalizeText(str1)),
                                          RemoveCommonWords(NormalizeText(str2))),
                               match.input.threshold)
           /\ (str1 = TheBeatles /\ str2 = Beatles) => match.output
\* A pair that is similar by the similarity of its forms without stop words
\* alone.
C28_Witness ==
    /\ Returned("isSimilar")
    /\ match.output
    /\ ~NearlyEqual(match.input.str1, match.input.str2)


\* C29: for every value of DOWNLOAD_CONCURRENCY (zero, negative and
\* non-numeric ones included) Phase 3 terminates, and when the run has
\* replied with its result every unmatched suggestion has been passed to
\* downloadSong and is downloaded or has an error entry.
C29_EveryUnmatchedDownloaded ==
    /\ pc # "batching"
    /\ (Replied /\ response.status = 200 /\ CanDownload(ytDlpAvailable))
       => \A i \in Unmatched :
             \/ sugg[i].dl = "ok"
             \/ /\ sugg[i].dl = "failed"
                /\ \E k \in ErrorKinds("download") : results.errors[k].idx = i


\* C30: withAdminAuth changes the shared client only while its operation
\* runs: when a run that called it has replied (and no other request has
\* touched the client), the client holds the requesting user's token and
\* user id again, not the admin token or an empty user id.
C30_AdminSessionRestored ==
    (Replied /\ other = "none" /\ trigger.calls > 0)
    => /\ accessToken = session
       /\ userId = CurrentUserOf(session)



\* C31: when a run has replied with its result, songsAdded + errors.length
\* <= totalSuggestions; and if no download succeeded, or the scan was
\* triggered and completed, the two are equal and every suggestion has
\* exactly one outcome: it was added, or exactly one errors entry names it.
EntriesOf(i) == { k \in 1..Len(results.errors) : results.errors[k].idx = i }
C31_OneOutcomePerSuggestion ==
    (Replied /\ response.status = 200)
    => /\ results.songsAdded + Len(results.errors) <= results.totalSuggestions
       /\ (SuccessfulDownloads = {} \/ ScanCompleted)
          => /\ results.songsAdded + Len(results.errors)
                  = results.totalSuggestions
             /\ \A i \in 1..Len(sugg) :
                   Cardinality(EntriesOf(i))
                     = IF sugg[i].add = "ok" THEN 0 ELSE 1

\* ------------------------------------------------- nested guarded calls
\* withAdminAuth(() => jellyfinClient.triggerMusicLibraryScan()) as the two
\* routes call it.  triggerMusicLibraryScan wraps its body in
\* withTokenRefresh; the body calls getMusicLibraryId and getActiveTasks,
\* each of which wraps its own request in withTokenRefresh again, and sends
\* the refresh POST itself.  On the server there is no window, so
\* getStoredCredentials() is null and every refresh of the user guard throws.

NestedRequests ==
    { "authenticate", "getItems", "tasksBefore", "postRefresh", "tasksAfter" }
DataRequests == NestedRequests \ { "authenticate" }

\* A call that has not started.
NewNested ==
    [ pc |-> "start",
      adminCreds |-> FALSE,      \* the three environment variables are set
      cached |-> FALSE,          \* isTokenValid() at entry
      inCatch |-> FALSE,         \* withAdminAuth is in its catch block
      sent |-> [r \in NestedRequests |-> 0],
      refreshes |-> [admin |-> 0, user |-> 0],
      answers |-> << >>,         \* what the server answered, in order
      returned |-> "none",
      thrown |-> "" ]

InitNested ==
    /\ \E creds, cached \in BOOLEAN :
          /\ cached => creds
          /\ nested = [NewNested EXCEPT !.adminCreds = creds,
                                        !.cached = cached]
    /\ GuardIdle
    /\ PollIdle
    /\ PipeIdle
    /\ ClientIdle
    /\ DownloadIdle
    /\ MatchIdle

NestedKeepsRest ==
    UNCHANGED << guardVars, pollVars, pipeVars, clientVars, downloadVars,
                 matchVars >>

\* The withTokenRefresh wrappers around a request of the body.
WrappersAround(request) == IF request = "postRefresh" THEN 1 ELSE 2

\* An error e thrown inside n withTokenRefresh wrappers, on the server: each
\* wrapper that classifies what reaches it as an auth error starts a refresh
\* (refreshToken -> performTokenRefresh), which throws for lack of stored
\* credentials, and that error is what the wrapper throws; otherwise the
\* wrapper rethrows what it caught.
RECURSIVE ThroughWrappers(_, _, _)
ThroughWrappers(e, n, started) ==
    IF n = 0 THEN [err |-> e, started |-> started]
    ELSE IF e \in AuthErrorIds
           THEN ThroughWrappers("ENoStoredCreds", n - 1, started + 1)
           ELSE ThroughWrappers(e, n - 1, started)

\* An error reaches withAdminAuth.  From the try block it is caught: an auth
\* error clears the token and starts a new exchange (performAdminAuth sends
\* the authenticate request, or throws without credentials); any other error
\* is rethrown.  From the catch block it propagates.
AdminCatchNested(n, e) ==
    IF n.inCatch \/ e \notin AdminAuthErrorIds
      THEN [n EXCEPT !.pc = "done", !.thrown = e]
      ELSE IF ~n.adminCreds
             THEN [n EXCEPT !.pc = "done", !.inCatch = TRUE,
                            !.refreshes.admin = @ + 1,
                            !.thrown = "EAdminCreds"]
             ELSE [n EXCEPT !.pc = "exchange", !.inCatch = TRUE,
                            !.refreshes.admin = @ + 1,
                            !.sent.authenticate = @ + 1]

\* An error e leaves `wrappers` withTokenRefresh wrappers and reaches
\* withAdminAuth.
NestedFailure(n, e, wrappers) ==
    LET u == ThroughWrappers(e, wrappers, 0)
    IN  AdminCatchNested(
            [n EXCEPT !.refreshes.user = @ + u.started], u.err)

\* withAdminAuth is entered: a valid cached token is used, or an exchange is
\* started; without credentials the exchange throws at once.
NestedCallStarts ==
    /\ nested.pc = "start"
    /\ nested' =
         IF nested.cached THEN [nested EXCEPT !.pc = "body"]
         ELSE IF ~nested.adminCreds
                THEN AdminCatchNested(nested, "EAdminCreds")
                ELSE [nested EXCEPT !.pc = "exchange",
                                    !.sent.authenticate = @ + 1]
    /\ NestedKeepsRest

\* The authenticate request is answered.  A token lets operation() run; a
\* rejection is rethrown by performAdminAuth as "Admin authentication
\* failed: ...".
NestedExchangeSettles(ok) ==
    /\ nested.pc = "exchange"
    /\ LET n == [nested EXCEPT
                   !.answers = Append(@, [request |-> "authenticate",
                                          answer |-> IF ok THEN "ok"
                                                           ELSE "E401"])]
       IN  nested' = IF ok THEN [n EXCEPT !.pc = "body"]
                           ELSE AdminCatchNested(n, "EAdminAuthFailed")
    /\ NestedKeepsRest

\* The body of triggerMusicLibraryScan runs after the dynamic import.
\* withAdminAuth has emptied the client's user id; getMusicLibraryId throws
\* "Not authenticated" unless a concurrent request has stored a user id in
\* the shared client meanwhile (uid), and then requests the folders.
NestedBodyRuns(uid) ==
    /\ nested.pc = "body"
    /\ nested' =
         IF uid THEN [nested EXCEPT !.pc = "getItems",
                                    !.sent.getItems = @ + 1]
                ELSE NestedFailure(nested, "ENotAuthenticated", 1)
    /\ NestedKeepsRest

\* What follows a request of the body that succeeded.
AfterRequest(n, folders) ==
    CASE n.pc = "getItems" ->
           IF MusicLibraryOf(folders) = 0
             THEN [n EXCEPT !.pc = "done", !.returned = "null"]
             ELSE [n EXCEPT !.pc = "tasksBefore", !.sent.tasksBefore = @ + 1]
      [] n.pc = "tasksBefore" ->
           [n EXCEPT !.pc = "postRefresh", !.sent.postRefresh = @ + 1]
      [] n.pc = "postRefresh" ->
           [n EXCEPT !.pc = "tasksAfter", !.sent.tasksAfter = @ + 1]
      [] n.pc = "tasksAfter" ->
           [n EXCEPT !.pc = "done", !.returned = "musicLibraryId"]

\* A request of the body is answered with data.
NestedRequestSucceeds(folders) ==
    /\ nested.pc \in DataRequests
    /\ nested.pc # "getItems" => folders = << "music" >>
    /\ nested' =
         AfterRequest([nested EXCEPT
                         !.answers = Append(@, [request |-> nested.pc,
                                                answer |-> "ok"])],
                      folders)
    /\ NestedKeepsRest

\* A request of the body is rejected with e.
NestedRequestFails(e) ==
    /\ nested.pc \in DataRequests
    /\ nested' =
         NestedFailure([nested EXCEPT
                          !.answers = Append(@, [request |-> nested.pc,
                                                 answer |-> e])],
                       e, WrappersAround(nested.pc))
    /\ NestedKeepsRest

NestedNext ==
    \/ NestedCallStarts
    \/ \E ok \in BOOLEAN : NestedExchangeSettles(ok)
    \/ \E uid \in BOOLEAN : NestedBodyRuns(uid)
    \/ \E folders \in FolderLists : NestedRequestSucceeds(folders)
    \/ \E e \in { "E401", "E403", "E500" } : NestedRequestFails(e)

SpecNested == InitNested /\ [][NestedNext]_vars

\* Every answer of the server so far was a rejection with an auth error.
RejectsEverything ==
    \A k \in 1..Len(nested.answers) :
        nested.answers[k].answer \in { "E401", "E403" }

FirstExchangeFailed ==
    /\ ~nested.cached
    /\ nested.answers # << >>
    /\ nested.answers[1] = [request |-> "authenticate", answer |-> "E401"]
C33_FailedExchangePropagates ==
    FirstExchangeFailed
    => /\ nested.pc = "done"
       /\ nested.thrown = "EAdminAuthFailed"
       /\ nested.sent.authenticate = 1
       /\ nested.refreshes.admin = 0

\* C34 as stated: waitForLibraryScanCompletion returns true only after a
\* reply that showed the scan active and a later one that showed it
\* settled; a first reply that precedes the start of the scan task does not
\* end the wait with true.  (A reply after which the wait went on showed an
\* active scan task, so the claim asks for two replies at least.)
RepliesReceived == queries.sent - queries.failed
C34_TrueOnlyAfterScanSeenActive ==
    scanResult = "true" => RepliesReceived >= 2

\* C35 as stated: findBestMatch returns a candidate only if its title is
\* similar to the suggestion's title at threshold 0.6 or better; a candidate
\* whose title contributes no score is never accepted.
C35_AcceptedTitleIsSimilar ==
    (Returned("findBestMatch") /\ match.output # 0)
    => IsSimilar(match.input.suggestion.title,
                 match.input.searchResults[match.output].name, 6)

\* C36 as stated: isSimilar(a, b, t) is false whenever exactly one of a and
\* b normalizes to the empty string.
OneNormalizesToEmpty(a, b) ==
    (NormalizeText(a) = << >>) # (NormalizeText(b) = << >>)
C36_EmptyNeverMatches ==
    ( /\ Returned("isSimilar")
      /\ OneNormalizesToEmpty(match.input.str1, match.input.str2) )
    => ~match.output

\* The k-th search of the call was answered with results among which
\* findBestMatch accepts one.
YieldsMatch(k) ==
    /\ match.searches[k].answer.status = "ok"
    /\ FindBestMatch(SuggestionOf(match.input),
                     match.searches[k].answer.results) # 0

\* C37 as stated: findSongInLibrary sends the generated queries in list
\* order, one at a time; it sends no query after one whose results yielded
\* an accepted match, which it returns; and it returns null only after
\* every query has been tried without a match.
C37_QueriesInOrderUntilMatch ==
    (match.pc \in { "searching", "returned" }
       /\ match.input.fn = "findSongInLibrary" /\ match.input.userId)
    => LET n == Len(match.searches)
       IN  /\ n <= Len(SearchQueries)
           /\ \A k \in 1..n : match.searches[k].query = SearchQueries[k]
           /\ \A k \in 1..(n - 1) :
                 /\ match.searches[k].answer.status # "pending"
                 /\ ~YieldsMatch(k)
           /\ (match.pc = "returned" /\ match.output.kind = "song")
              => YieldsMatch(n)
           /\ (match.pc = "returned" /\ match.output.kind = "null")
              => /\ n = Len(SearchQueries)
                 /\ \A k \in 1..n :
                       /\ match.searches[k].answer.status = "ok"
                       /\ ~YieldsMatch(k)

\* The parts of a score as the claim names them, for the call at hand.
TitleTier ==
    LET t == match.input.suggestion.title
        n == match.input.result.name
    IN  IF IsSimilar(t, n, 8) THEN 10 ELSE IF IsSimilar(t, n, 6) THEN 5 ELSE 0
ArtistTier ==
    LET a == match.input.suggestion.artist
        aa == match.input.result.albumArtist
    IN  IF aa = Absent THEN 0
        ELSE IF IsSimilar(a, aa, 8) THEN 8
        ELSE IF IsSimilar(a, aa, 6) THEN 4 ELSE 0
AlbumTier ==
    LET al == match.input.suggestion.album
        ral == match.input.result.album
    IN  IF al # Absent /\ ral # Absent /\ IsSimilar(al, ral, 8) THEN 3 ELSE 0
RawBonus ==
    LET titles == CalculateSimilarity(
                      NormalizeText(match.input.suggestion.title),
                      NormalizeText(match.input.result.name))
        artists == IF match.input.result.albumArtist = Absent
                     THEN Fraction(0, 1)
                     ELSE CalculateSimilarity(
                              NormalizeText(match.input.suggestion.artist),
                              NormalizeText(match.input.result.albumArtist))
    IN  IF MoreThan(titles, 5) /\ MoreThan(artists, 5) THEN 5 ELSE 0

ListedQueries ==
    LET s == match.input.suggestion
        first == Spaced(s.title, s.artist)
        stripped == Spaced(RemoveCommonWords(s.title),
                           RemoveCommonWords(s.artist))
    IN  << first, s.title, s.artist >>
          \o (IF s.album # Absent THEN << Spaced(s.title, s.album) >>
              ELSE << >>)
          \o (IF stripped # first THEN << stripped >> ELSE << >>)
\* The first place of a query in the listed order.
PlaceOf(query) ==
    CHOOSE k \in 1..Len(ListedQueries) :
        /\ ListedQueries[k] = query
        /\ \A j \in 1..(k - 1) : ListedQueries[j] # query

\* C39: generateSearchQueries returns a duplicate-free list that starts with
\* "title artist", holds exactly the listed queries ("title artist", "title",
\* "artist", "title album" with an album, the stop-word-stripped "title
\* artist" when it differs from the first) and keeps their relative order.
C39_QueriesListedOnceInOrder ==
    Returned("generateSearchQueries")
    => LET out == match.output
       IN  /\ Len(out) >= 1
           /\ out[1] = Spaced(match.input.suggestion.title,
                              match.input.suggestion.artist)
           /\ \A i, j \in 1..Len(out) : i # j => out[i] # out[j]
           /\ { out[i] : i \in 1..Len(out) }
                = { ListedQueries[k] : k \in 1..Len(ListedQueries) }
           /\ \A i, j \in 1..Len(out) :
                 i < j => PlaceOf(out[i]) < PlaceOf(out[j])
\* A call where a repeated query was dropped and the stripped variant kept.
C39_Witness ==
    /\ Returned("generateSearchQueries")
    /\ match.input.suggestion.album # Absent
    /\ Len(match.output) < Len(ListedQueries)
    /\ match.output[Len(match.output)]
         = Spaced(RemoveCommonWords(match.input.suggestion.title),
                  RemoveCommonWords(match.input.suggestion.artist))
    /\ match.output[Len(match.output)] # match.output[1]

\* ------------------------------------------- library index poller: progress
\* A timer set with setTimeout fires, and a call that was made runs: the event
\* loop sees to both. Nothing in the code bounds the time a task query takes:
\* the request of getActiveTasks carries no timeout and no abort signal, so
\* whether it ever settles is the server's choice.
TimerStep == \E late \in 0..MaxTimerLate : TimerFires(late)
QuerySettles ==
    \/ \E d \in 0..MaxQueryDelay : QueryReplies(d)
    \/ \E d \in 0..MaxQueryDelay : QueryFails(d)
SpecPollLive ==
    /\ SpecPoll
    /\ WF_vars(PollStart)
    /\ WF_vars(TimerStep)
\* The same, for a server that settles every task query.
SpecPollSettling ==
    /\ SpecPollLive
    /\ WF_vars(QuerySettles)

\* C40: waitForLibraryScanCompletion eventually returns whatever the server
\* does, and sends no task query once maxWaitTimeMs has elapsed since it
\* started.
C40_WaitTerminates ==
    /\ <>(pollPc = "done")
    /\ [](pollPc = "query" => WithinWait(clock, startTime))
\* With every task query settled the wait does end.
WaitEndsWhenQueriesSettle == <>(pollPc = "done")

=============================================================================
